---- MODULE Spec2Model ----
(***************************************************************************)
(* Verification model of the funding-rate arbitrage bot (kaplion/funding). *)
(*                                                                         *)
(* The module holds several specifications over one set of variables:      *)
(*   SpecSaga  - Executor.open_position / close_position in live mode,     *)
(*               one action per exchange call of the saga                 *)
(*   (further specifications follow below, each with its own variables)    *)
(* A specification leaves the variables of the others unchanged.           *)
(***************************************************************************)
EXTENDS Integers, Sequences, FiniteSets, TLC

(***************************************************************************)
(* Bounds of the model.                                                    *)
(***************************************************************************)
\* requested quantity of one leg, in lots
MaxQty == 2
\* status polls of one wait-for-fill loop before the timeout must elapse
MaxPolls == 2
\* paper positions opened in one run of the paper ledger
MaxOpens == 2
\* funding payments applied to one position
MaxFunding == 1

\* ticks of the clock that pass in a behaviour of the funding check
MaxTicks == 30
\* cycles, exceptions and error notifications counted before the counters saturate
MaxCycles == 3
\* config.strategy.recheck_interval in ticks of the model's clock
WaitTicks == 2
\* ids of Position rows that can be OPEN or in use at one time
MaxRows == 4
\* config.strategy.max_positions as configured for the model
max_positions == 2
MaxStarts == 3

\* Symbols the exchange lists, in the order of its premium index
SymbolOrder == <<"BTCUSDT", "ETHUSDT">>
Symbols == {SymbolOrder[i] : i \in DOMAIN SymbolOrder}

(***************************************************************************)
(* Enumerations of src/models.py                                           *)
(***************************************************************************)
PositionSide == {"long_spot_short_perp", "short_spot_long_perp"}
OrderSide == {"buy", "sell"}
Legs == {"spot", "futures"}

VARIABLES
    \* ---- live saga (executor.py) ----
    sg_pc,        \* position of the executor coroutine
    sg_limit,     \* config.trading.prefer_limit_orders
    sg_side,      \* side of the position being opened
    sg_res,       \* leg -> ExecutionResult of the entry order of that leg
    sg_polls,     \* polls done by the running _wait_for_order_fill loop
    sg_exch,      \* leg -> what the exchange really holds for that leg
    sg_orders,    \* every create_order call the executor made, in order
    sg_result,    \* PositionExecutionResult returned, or NoResult
    sg_position,  \* the Position object of the saga
    \* ---- paper ledger (paper_trader.py) and the executor's paper variant ----
    pt_initial,          \* PaperTrader.initial_balance
    pt_spot_balance,     \* PaperTrader.spot_balance
    pt_futures_balance,  \* PaperTrader.futures_balance
    pt_positions,        \* PaperTrader.positions: symbol -> PaperPosition or NoPaper
    pt_trades,           \* PaperTrader.trade_history: number of trades, sum of fees
    pt_funding,          \* PaperTrader.funding_history: number of payments
    pp_position,         \* symbol -> the Position object the executor built for it
    pp_result,           \* result of the last executor call in paper mode
    pp_opens,            \* paper positions opened so far
    \* ---- orchestrator cycle (bot.py run_once) ----
    md_paper,        \* config.trading.paper_trading
    db,              \* id -> committed Position row that is OPEN, or NoRow
    rm_peak_equity,  \* RiskManager._peak_equity
    cy_pc,           \* step of run_once the cycle is at
    cy_positions,    \* ids of the positions list loaded at the start of the cycle
    cy_equity,       \* total_equity read in this cycle
    cy_paused,       \* should_pause_trading answered True in this cycle
    cy_todo,         \* signals of the running loop not yet processed
    cy_ran,          \* steps of run_once begun in this cycle
    cy_attempts,     \* open and close attempts of this cycle with their outcome
    cy_data,         \* per symbol, whether its funding rate and its prices were fetched
    cy_candidates,   \* symbols whose funding rate qualified in this cycle's scan
    cy_slots,        \* remaining_slots computed by this cycle's entry step
    cy_error,        \* the cycle ended in the except clause of run_once
    \* ---- run loop (bot.py run, stop) ----
    rn_pc,           \* where run() is: not_started, test, cycle, waiting, finally, terminated
    rn_running,      \* FundingBot._running
    rn_shutdown,     \* FundingBot._shutdown_event is set
    rn_step,         \* the step of run_once in progress
    rn_wait,         \* ticks left of the inter-cycle wait
    rn_cycles,       \* cycles started (saturating)
    rn_raised,       \* exceptions raised inside run_once (saturating)
    rn_errors,       \* notify_error calls of the cycle boundary (saturating)
    rn_notes,        \* lifecycle notifications sent
    rn_cycle_raised, \* the last cycle ended in the except clause
    rn_stop,         \* what happened since stop() was called on the active loop
    \* ---- funding check (bot.py _check_funding_payments) ----
    fd_now,          \* datetime.utcnow() in ticks since a midnight
    fd_ticks,        \* ticks passed since the start
    fd_last_check,   \* FundingBot._last_funding_check
    fd_open,         \* ids of the OPEN positions
    fd_payments,     \* the FundingPayment rows
    \* ---- calls of the strategy's and the risk manager's decision functions ----
    fn_name,         \* the function called last
    fn_args,         \* its arguments
    fn_result,       \* what it returned
    \* ---- the dashboard's start and stop endpoints and the run() tasks they create ----
    ds_tasks,        \* where each task created by asyncio.create_task(bot.run()) stands
    ds_bot_running,  \* DashboardServer._bot_running
    ds_running,      \* FundingBot._running
    ds_shutdown      \* FundingBot._shutdown_event is set

\* an optional value: None, or Some(v)
None == [some |-> FALSE, v |-> 0]
Some(x) == [some |-> TRUE, v |-> x]

\* no row under an id of the positions table
NoRow == [status |-> "none", symbol |-> "none", side |-> "long_spot_short_perp",
          position_value |-> 0]

RowIds == 1..MaxRows

\* the run() tasks the start endpoint can create
Tasks == 1..MaxStarts

\* nothing happened since a stop() on the active loop: none was called
NoStop == [called |-> FALSE, cycle_started |-> FALSE, waited |-> FALSE, early |-> FALSE]

\* no fetch of a symbol's funding rate or prices made yet in the cycle
NoData == [funding |-> [s \in Symbols |-> "unfetched"],
           spread |-> [s \in Symbols |-> "unfetched"]]

sagaVars == <<sg_pc, sg_limit, sg_side, sg_res, sg_polls, sg_exch, sg_orders,
              sg_result, sg_position>>

paperVars == <<pt_initial, pt_spot_balance, pt_futures_balance, pt_positions, pt_trades,
               pt_funding, pp_position, pp_result, pp_opens>>

cycleVars == <<md_paper, db, rm_peak_equity, cy_pc, cy_positions, cy_equity,
               cy_paused, cy_todo, cy_ran, cy_attempts, cy_data, cy_candidates, cy_slots, cy_error>>

runVars == <<rn_pc, rn_running, rn_shutdown, rn_step, rn_wait, rn_cycles, rn_raised,
             rn_errors, rn_notes, rn_cycle_raised, rn_stop>>

fundingVars == <<fd_now, fd_ticks, fd_last_check, fd_open, fd_payments>>

callVars == <<fn_name, fn_args, fn_result>>

dashVars == <<ds_tasks, ds_bot_running, ds_running, ds_shutdown>>

vars == <<sagaVars, paperVars, cycleVars, runVars, fundingVars, callVars, dashVars>>

nonSagaVars == <<paperVars, cycleVars, runVars, fundingVars, callVars, dashVars>>
nonPaperVars == <<sagaVars, cycleVars, runVars, fundingVars, callVars, dashVars>>
nonCycleVars == <<sagaVars, paperVars, runVars, fundingVars, callVars, dashVars>>
nonRunVars == <<sagaVars, paperVars, cycleVars, fundingVars, callVars, dashVars>>
nonFundingVars == <<sagaVars, paperVars, cycleVars, runVars, callVars, dashVars>>
nonDashVars == <<sagaVars, paperVars, cycleVars, runVars, fundingVars, callVars>>
\* the decision functions read and write the risk manager's peak equity only
nonCallVars == <<sagaVars, paperVars, runVars, fundingVars, md_paper, db, cy_pc,
                 cy_positions, cy_equity, cy_paused, cy_todo, cy_ran, cy_attempts,
                 cy_data, cy_candidates, cy_slots, cy_error, dashVars>>

(***************************************************************************)
(* Executor: results and orders                                            *)
(***************************************************************************)
NoResult == [call |-> "none", returned |-> FALSE, success |-> FALSE, position |-> FALSE, error |-> "none"]

\* ExecutionResult(success=False, error=...) of a placement that raised
FailedResult(err) ==
    [success |-> FALSE, order |-> FALSE, status |-> "none", filled_quantity |-> 0,
     error |-> err]

\* status an Order gets from the exchange response (executor.py 153-162, 253-262)
order_status(respStatus, filled, quantity) ==
    IF respStatus = "closed" \/ filled >= quantity THEN "filled"
    ELSE IF respStatus = "canceled" THEN "cancelled"
    ELSE IF filled > 0 THEN "partially_filled"
    ELSE "pending"

\* what create_order can do: raise, or answer with a status and a filled quantity
PlaceOutcomes == {"ok", "insufficient_funds", "exchange_error", "network_error"}

\* answers of the exchange to an order for `quantity`: closed means fully filled
Responses(quantity) ==
    {[status |-> "closed", filled |-> quantity]}
    \cup {[status |-> s, filled |-> f] : s \in {"open", "canceled"}, f \in 0..(quantity - 1)}

\* _place_spot_order / _place_futures_order: the ExecutionResult for an outcome
\* that did not escape (network_error escapes both except clauses)
place_order(outcome, resp, quantity) ==
    IF outcome = "insufficient_funds" THEN FailedResult("Insufficient funds")
    ELSE IF outcome = "exchange_error" THEN FailedResult("exchange error")
    ELSE [success |-> TRUE, order |-> TRUE,
          status |-> order_status(resp.status, resp.filled, quantity),
          filled_quantity |-> resp.filled, error |-> "none"]

\* order sides of the entry (executor.py 439-444)
entry_side(side, leg) ==
    IF side = "long_spot_short_perp"
    THEN (IF leg = "spot" THEN "buy" ELSE "sell")
    ELSE (IF leg = "spot" THEN "sell" ELSE "buy")

opposite(s) == IF s = "buy" THEN "sell" ELSE "buy"

\* one create_order call as the executor issued it
OrderCall(leg, side, type, quantity, reduce_only, purpose, placed) ==
    [leg |-> leg, side |-> side, type |-> type, quantity |-> quantity,
     reduce_only |-> reduce_only, purpose |-> purpose, placed |-> placed]

needs_fill(r) == r.order /\ r.status # "filled"

\* the order of a leg as the exchange holds it
NoExch == [live |-> FALSE, limit_filled |-> 0, market_filled |-> 0, offset |-> 0]

NewPosition == [status |-> "none", spot_quantity |-> 0, futures_quantity |-> 0,
                closed_at |-> FALSE]

NoPaper == [open |-> FALSE]

NoPosition ==
    [status |-> "none", side |-> "long_spot_short_perp",
     spot_quantity |-> 0, spot_entry_price |-> 0,
     futures_quantity |-> 0, futures_entry_price |-> 0,
     spot_exit_price |-> 0, futures_exit_price |-> 0,
     accumulated_funding |-> 0, funding_payments_count |-> 0, total_fees |-> 0,
     spot_pnl |-> 0, futures_pnl |-> 0, realized_pnl |-> 0]

NoPaperResult == [call |-> "none", symbol |-> "none", success |-> FALSE, error |-> "none"]

SagaInit ==
    /\ sg_pc = "idle"
    /\ sg_limit \in BOOLEAN
    /\ sg_side \in PositionSide
    /\ sg_res = [l \in Legs |-> FailedResult("none")]
    /\ sg_polls = 0
    /\ sg_exch = [l \in Legs |-> NoExch]
    /\ sg_orders = <<>>
    /\ sg_result = NoResult
    /\ sg_position = NewPosition
    \* the paper ledger is not in use
    /\ pt_initial = 0
    /\ pt_spot_balance = 0
    /\ pt_futures_balance = 0
    /\ pt_positions = [s \in Symbols |-> NoPaper]
    /\ pt_trades = [count |-> 0, fees |-> 0]
    /\ pt_funding = 0
    /\ pp_position = [s \in Symbols |-> NoPosition]
    /\ pp_result = NoPaperResult
    /\ pp_opens = 0
    /\ md_paper = FALSE
    /\ db = [i \in RowIds |-> NoRow]
    /\ rm_peak_equity = 0
    /\ cy_pc = "idle"
    /\ cy_positions = {}
    /\ cy_equity = 0
    /\ cy_paused = FALSE
    /\ cy_todo = <<>>
    /\ cy_ran = {}
    /\ cy_attempts = {}
    /\ cy_data = NoData
    /\ cy_candidates = {}
    /\ cy_slots = 0
    /\ cy_error = FALSE
    /\ rn_pc = "not_started"
    /\ rn_running = FALSE
    /\ rn_shutdown = FALSE
    /\ rn_step = "none"
    /\ rn_wait = 0
    /\ rn_cycles = 0
    /\ rn_raised = 0
    /\ rn_errors = 0
    /\ rn_notes = {}
    /\ rn_cycle_raised = FALSE
    /\ rn_stop = NoStop
    /\ fd_now = 0
    /\ fd_ticks = 0
    /\ fd_last_check = None
    /\ fd_open = {}
    /\ fd_payments = {}
    /\ fn_name = "none"
    /\ fn_args = <<>>
    /\ fn_result = "none"
    /\ ds_tasks = [t \in Tasks |-> "none"]
    /\ ds_bot_running = FALSE
    /\ ds_running = FALSE
    /\ ds_shutdown = FALSE

\* what the exchange holds after an entry order was answered with resp
exch_after_entry(limit, resp) ==
    IF limit
    THEN [live |-> resp.status = "open", limit_filled |-> resp.filled,
          market_filled |-> 0, offset |-> 0]
    ELSE [live |-> FALSE, limit_filled |-> 0, market_filled |-> resp.filled, offset |-> 0]

\* open_position, lines 402-429: PENDING position, leverage, current prices
OpenStart ==
    /\ sg_pc = "idle"
    /\ sg_position' = [NewPosition EXCEPT !.status = "pending"]
    /\ \E spread_ok \in BOOLEAN :
         IF spread_ok
         THEN /\ sg_pc' = "place"
              /\ UNCHANGED sg_result
         ELSE /\ sg_pc' = "returned"
              /\ sg_result' = [call |-> "open", returned |-> TRUE, success |-> FALSE, position |-> FALSE,
                               error |-> "Could not get current prices"]
    /\ UNCHANGED <<sg_limit, sg_side, sg_res, sg_polls, sg_exch, sg_orders>>
    /\ UNCHANGED nonSagaVars

\* open_position, lines 446-465: both entry orders issued together and joined.
\* An exception that is not an ExchangeError escapes the gather while the other
\* call still reaches the exchange.
OpenPlace ==
    /\ sg_pc = "place"
    /\ \E os \in PlaceOutcomes, of \in PlaceOutcomes,
          rs \in Responses(MaxQty), rf \in Responses(MaxQty) :
         LET type == IF sg_limit THEN "limit" ELSE "market"
             out == [spot |-> os, futures |-> of]
             rsp == [spot |-> rs, futures |-> rf]
             call(l) == OrderCall(l, entry_side(sg_side, l), type, MaxQty, FALSE,
                                  "entry", out[l] = "ok")
         IN /\ sg_orders' = sg_orders \o <<call("spot"), call("futures")>>
            /\ sg_exch' = [l \in Legs |->
                             IF out[l] = "ok" THEN exch_after_entry(sg_limit, rsp[l])
                             ELSE sg_exch[l]]
            /\ IF os = "network_error" \/ of = "network_error"
               THEN /\ sg_pc' = "raised"
                    /\ UNCHANGED sg_res
               ELSE /\ sg_res' = [l \in Legs |-> place_order(out[l], rsp[l], MaxQty)]
                    /\ sg_pc' = IF sg_limit THEN "wait_spot" ELSE "check"
    /\ UNCHANGED <<sg_limit, sg_side, sg_polls, sg_result, sg_position>>
    /\ UNCHANGED nonSagaVars

\* the exchange fills one more lot of a resting limit order
ExchangeFill(l) ==
    /\ sg_exch[l].live
    /\ sg_exch[l].limit_filled < MaxQty
    /\ sg_pc \in {"wait_spot", "wait_futures", "convert_spot", "convert_futures", "check"}
    /\ sg_exch' = [sg_exch EXCEPT ![l].limit_filled = @ + 1,
                                  ![l].live = (sg_exch[l].limit_filled + 1 < MaxQty)]
    /\ UNCHANGED <<sg_pc, sg_limit, sg_side, sg_res, sg_polls, sg_orders, sg_result,
                   sg_position>>
    /\ UNCHANGED nonSagaVars

after_wait(l) == IF l = "spot" THEN "wait_futures" ELSE "convert_spot"
after_convert(l) == IF l = "spot" THEN "convert_futures" ELSE "check"

\* fetch_order's answer for the limit order of leg l
fetched(l) ==
    [status |-> IF sg_exch[l].limit_filled >= MaxQty THEN "closed"
                ELSE IF sg_exch[l].live THEN "open" ELSE "canceled",
     filled |-> sg_exch[l].limit_filled]

\* open_position 471-479 with _wait_for_order_fill 279-331, one poll per step
WaitSkip(l) ==
    /\ sg_pc = "wait_" \o l
    /\ ~needs_fill(sg_res[l])
    /\ sg_pc' = after_wait(l)
    /\ UNCHANGED <<sg_limit, sg_side, sg_res, sg_polls, sg_exch, sg_orders, sg_result,
                   sg_position>>
    /\ UNCHANGED nonSagaVars

WaitPoll(l) ==
    /\ sg_pc = "wait_" \o l
    /\ needs_fill(sg_res[l])
    /\ sg_polls < MaxPolls
    /\ \E o \in {"ok", "exchange_error", "network_error"} :
         \/ /\ o = "ok"
            /\ LET r == fetched(l)
                   done == r.status = "closed" \/ r.filled >= MaxQty \/ r.status = "canceled"
               IN /\ sg_res' = [sg_res EXCEPT
                        ![l].filled_quantity = r.filled,
                        ![l].status = IF r.status = "closed" \/ r.filled >= MaxQty
                                      THEN "filled"
                                      ELSE IF r.status = "canceled" THEN "cancelled"
                                      ELSE @]
                  /\ sg_pc' = IF done THEN after_wait(l) ELSE sg_pc
                  /\ sg_polls' = IF done THEN 0 ELSE sg_polls + 1
         \/ /\ o = "exchange_error"
            /\ sg_polls' = sg_polls + 1
            /\ UNCHANGED <<sg_pc, sg_res>>
         \/ /\ o = "network_error"
            /\ sg_pc' = "raised"
            /\ UNCHANGED <<sg_polls, sg_res>>
    /\ UNCHANGED <<sg_limit, sg_side, sg_exch, sg_orders, sg_result, sg_position>>
    /\ UNCHANGED nonSagaVars

\* the timeout of the loop elapses (line 306)
WaitTimeout(l) ==
    /\ sg_pc = "wait_" \o l
    /\ needs_fill(sg_res[l])
    /\ sg_pc' = after_wait(l)
    /\ sg_polls' = 0
    /\ UNCHANGED <<sg_limit, sg_side, sg_res, sg_exch, sg_orders, sg_result, sg_position>>
    /\ UNCHANGED nonSagaVars

\* open_position 481-508: cancel what is left of the limit order, then one market
\* order for the quantity the executor believes is unfilled
ConvertSkip(l) ==
    /\ sg_pc = "convert_" \o l
    /\ ~needs_fill(sg_res[l])
    /\ sg_pc' = after_convert(l)
    /\ UNCHANGED <<sg_limit, sg_side, sg_res, sg_polls, sg_exch, sg_orders, sg_result,
                   sg_position>>
    /\ UNCHANGED nonSagaVars

\* _cancel_order 333-363: an ExchangeError is logged and answered with False
CancelOutcomes(l) ==
    IF sg_exch[l].live THEN {"ok", "exchange_error", "network_error"}
    ELSE {"exchange_error", "network_error"}

Convert(l) ==
    /\ sg_pc = "convert_" \o l
    /\ needs_fill(sg_res[l])
    /\ \E c \in CancelOutcomes(l) :
         LET remaining == MaxQty - sg_res[l].filled_quantity
             live == IF c = "ok" THEN FALSE ELSE sg_exch[l].live
             status == IF c = "ok" THEN "cancelled" ELSE sg_res[l].status
         IN IF c = "network_error"
            THEN /\ sg_pc' = "raised"
                 /\ UNCHANGED <<sg_res, sg_exch, sg_orders>>
            ELSE IF remaining > 0
            THEN \E o \in PlaceOutcomes, r \in Responses(remaining) :
                   LET m == place_order(o, r, remaining)
                   IN /\ sg_orders' = Append(sg_orders,
                             OrderCall(l, entry_side(sg_side, l), "market", remaining,
                                       FALSE, "fallback", o = "ok"))
                      /\ sg_exch' = [sg_exch EXCEPT
                             ![l].live = live,
                             ![l].market_filled = IF o = "ok" THEN @ + r.filled ELSE @]
                      /\ IF o = "network_error"
                         THEN /\ sg_pc' = "raised"
                              /\ sg_res' = [sg_res EXCEPT ![l].status = status]
                         ELSE /\ sg_pc' = after_convert(l)
                              /\ sg_res' = [sg_res EXCEPT
                                    ![l].status = status,
                                    ![l].filled_quantity =
                                        IF m.success THEN @ + m.filled_quantity ELSE @]
            ELSE /\ sg_pc' = after_convert(l)
                 /\ sg_res' = [sg_res EXCEPT ![l].status = status]
                 /\ sg_exch' = [sg_exch EXCEPT ![l].live = live]
                 /\ UNCHANGED sg_orders
    /\ UNCHANGED <<sg_limit, sg_side, sg_polls, sg_result, sg_position>>
    /\ UNCHANGED nonSagaVars

\* the rollback order of leg l (lines 513-527): opposite side, market, for the
\* filled quantity of the entry order, reduce-only on the futures leg
rollback_call_mut(l, placed) ==
    OrderCall(l, opposite(entry_side(sg_side, l)), "market", sg_res[l].filled_quantity,
              FALSE, "rollback", placed)

rollback_call(l, placed) ==
    OrderCall(l, opposite(entry_side(sg_side, l)), "market", sg_res[l].filled_quantity,
              l = "futures", "rollback", placed)

rolled_back(l) == sg_res[l].success /\ sg_res[l].order

\* open_position 510-532: one leg failed, the other is rolled back
OpenRollback ==
    /\ sg_pc = "check"
    /\ ~sg_res["spot"].success \/ ~sg_res["futures"].success
    /\ \E os \in PlaceOutcomes, of \in PlaceOutcomes, fs \in 0..MaxQty, ff \in 0..MaxQty :
         LET out == [spot |-> os, futures |-> of]
             fill == [spot |-> fs, futures |-> ff]
             \* the futures rollback is reached only if the spot one did not escape
             reached(l) == rolled_back(l)
                           /\ (l = "spot" \/ ~(rolled_back("spot") /\ os = "network_error"))
             calls == (IF reached("spot")
                       THEN <<rollback_call("spot", os = "ok")>> ELSE <<>>)
                      \o (IF reached("futures")
                          THEN <<rollback_call("futures", of = "ok")>> ELSE <<>>)
             escaped == \E l \in Legs : reached(l) /\ out[l] = "network_error"
         IN /\ \A l \in Legs : fill[l] <= sg_res[l].filled_quantity
            /\ \A l \in Legs : ~reached(l) => out[l] = "ok"
            /\ \A l \in Legs : ~(reached(l) /\ out[l] = "ok") => fill[l] = 0
            /\ sg_orders' = sg_orders \o calls
            /\ sg_exch' = [l \in Legs |->
                  IF reached(l) /\ out[l] = "ok"
                  THEN [sg_exch[l] EXCEPT !.offset = @ + fill[l]]
                  ELSE sg_exch[l]]
            /\ IF escaped
               THEN /\ sg_pc' = "raised_rollback"
                    /\ UNCHANGED sg_result
               ELSE /\ sg_pc' = "returned"
                    /\ sg_result' =
                         [call |-> "open", returned |-> TRUE, success |-> FALSE, position |-> FALSE,
                          error |-> IF sg_res["spot"].error # "none"
                                    THEN sg_res["spot"].error
                                    ELSE sg_res["futures"].error]
    /\ UNCHANGED <<sg_limit, sg_side, sg_res, sg_polls, sg_position>>
    /\ UNCHANGED nonSagaVars

\* open_position 534-560: both placements succeeded, the position becomes OPEN
OpenSucceed ==
    /\ sg_pc = "check"
    /\ sg_res["spot"].success /\ sg_res["futures"].success
    /\ sg_position' = [sg_position EXCEPT
          !.status = "open",
          !.spot_quantity = sg_res["spot"].filled_quantity,
          !.futures_quantity = sg_res["futures"].filled_quantity]
    /\ sg_result' = [call |-> "open", returned |-> TRUE, success |-> TRUE, position |-> TRUE,
                     error |-> "none"]
    /\ sg_pc' = "returned"
    /\ UNCHANGED <<sg_limit, sg_side, sg_res, sg_polls, sg_exch, sg_orders>>
    /\ UNCHANGED nonSagaVars

\* order sides of the close, the opposite of the entry (executor.py 579-585)
close_side(side, leg) == opposite(entry_side(side, leg))

\* close_position 571-577: the position is marked CLOSING
CloseStart ==
    /\ sg_pc = "returned"
    /\ sg_result.call = "open" /\ sg_result.success
    /\ sg_position.status = "open"
    /\ sg_position' = [sg_position EXCEPT !.status = "closing"]
    /\ sg_pc' = "closing"
    /\ UNCHANGED <<sg_limit, sg_side, sg_res, sg_polls, sg_exch, sg_orders, sg_result>>
    /\ UNCHANGED nonSagaVars

\* close_position 587-655: two market orders joined, P&L, CLOSED, success.
\* The results of the two placements are not looked at.
ClosePlace ==
    /\ sg_pc = "closing"
    /\ \E os \in PlaceOutcomes, of \in PlaceOutcomes :
         LET out == [spot |-> os, futures |-> of]
             qty == [spot |-> sg_position.spot_quantity,
                     futures |-> sg_position.futures_quantity]
             call(l) == OrderCall(l, close_side(sg_side, l), "market", qty[l],
                                  l = "futures", "close", out[l] = "ok")
         IN /\ sg_orders' = sg_orders \o <<call("spot"), call("futures")>>
            /\ IF os = "network_error" \/ of = "network_error"
               THEN /\ sg_pc' = "raised_close"
                    /\ UNCHANGED <<sg_position, sg_result>>
               ELSE /\ sg_pc' = "closed"
                    /\ sg_position' = [sg_position EXCEPT !.status = "closed",
                                                          !.closed_at = TRUE]
                    /\ sg_result' = [call |-> "close", returned |-> TRUE,
                                     success |-> TRUE, position |-> TRUE,
                                     error |-> "none"]
    /\ UNCHANGED <<sg_limit, sg_side, sg_res, sg_polls, sg_exch>>
    /\ UNCHANGED nonSagaVars

SagaNext ==
    \/ OpenStart
    \/ OpenPlace
    \/ \E l \in Legs : ExchangeFill(l)
    \/ \E l \in Legs : WaitSkip(l)
    \/ \E l \in Legs : WaitPoll(l)
    \/ \E l \in Legs : WaitTimeout(l)
    \/ \E l \in Legs : ConvertSkip(l)
    \/ \E l \in Legs : Convert(l)
    \/ OpenRollback
    \/ OpenSucceed
    \/ CloseStart
    \/ ClosePlace

(***************************************************************************)
(* Claims about the live saga                                              *)
(***************************************************************************)
other_leg(l) == IF l = "spot" THEN "futures" ELSE "spot"

\* open_position is past its success check with leg a failed and leg b placed
OneLegFailed(a, b) ==
    /\ sg_pc \in {"returned", "raised_rollback"}
    /\ ~sg_res[a].success /\ sg_res[a].error \in {"Insufficient funds", "exchange error"}
    /\ sg_res[b].success /\ sg_res[b].order

RollbackIssued(b) ==
    \E i \in DOMAIN sg_orders :
       /\ sg_orders[i].purpose = "rollback"
       /\ sg_orders[i].leg = b
       /\ sg_orders[i].type = "market"
       /\ sg_orders[i].side # entry_side(sg_side, b)
       /\ sg_orders[i].quantity = sg_res[b].filled_quantity
       /\ sg_orders[i].reduce_only = (b = "futures")

C2_OpenOnlyIfBothFilled ==
    (sg_position.status = "open" \/ (sg_result.call = "open" /\ sg_result.success)) =>
       \A l \in Legs : sg_res[l].filled_quantity = MaxQty

\* C4: a position is marked CLOSED, with closed_at set and a success result, only
\* when the closing orders of both legs succeeded.
C4_ClosedOnlyIfBothClosed ==
    (sg_position.status = "closed" \/ (sg_result.call = "close" /\ sg_result.success)) =>
       \A l \in Legs :
          \E i \in DOMAIN sg_orders :
             sg_orders[i].purpose = "close" /\ sg_orders[i].leg = l /\ sg_orders[i].placed

\* a live open_position is over and gave no OPEN position: it returned a failure
\* or an exception left it
open_ended_without_position ==
    \/ sg_pc \in {"raised", "raised_rollback"}
    \/ sg_pc = "returned" /\ sg_result.call = "open" /\ ~sg_result.success

\* what the exchange filled of the entry orders of leg l
filled_on_exchange(l) == sg_exch[l].limit_filled + sg_exch[l].market_filled

\* C20: whenever a live open_position ends without an OPEN position, by a failure
\* result or by an exception escaping from a leg's placement, every quantity
\* filled on either leg has been offset by a successful opposite-side order
C20_NoUnhedgedExposure ==
    open_ended_without_position =>
       \A l \in Legs : sg_exch[l].offset >= filled_on_exchange(l)

\* the steps of the executor's own coroutine; the task that awaits open_position
\* keeps being scheduled and every exchange call it awaits completes or raises
ExecutorStep ==
    \/ OpenStart
    \/ OpenPlace
    \/ \E l \in Legs : WaitSkip(l)
    \/ \E l \in Legs : WaitPoll(l)
    \/ \E l \in Legs : WaitTimeout(l)
    \/ \E l \in Legs : ConvertSkip(l)
    \/ \E l \in Legs : Convert(l)
    \/ OpenRollback
    \/ OpenSucceed

SpecSagaFair == SagaInit /\ [][SagaNext]_vars /\ WF_vars(ExecutorStep)

\* C21: for each leg of a live open attempt, the quantity filled on the exchange
\* by the limit order plus the fallback market order never exceeds the requested
\* quantity, also when the limit order fills between the last poll and the
\* cancel or when the cancel call fails
C21_NoOverfill ==
    \A l \in Legs : filled_on_exchange(l) <= MaxQty

\* the orders of one purpose placed for leg l
orders_of(l, purpose) ==
    {i \in DOMAIN sg_orders : sg_orders[i].leg = l /\ sg_orders[i].purpose = purpose}

\* one entry order per leg and at most one fallback order, a market order
single_fallback ==
    \A l \in Legs :
       /\ Cardinality(orders_of(l, "entry")) <= 1
       /\ Cardinality(orders_of(l, "fallback")) <= 1
       /\ Cardinality(orders_of(l, "rollback")) <= 1
       /\ \A i \in orders_of(l, "fallback") : sg_orders[i].type = "market"

\* C26: with limit orders the wait for the fills ends, the executor then cancels
\* what is unfilled and places at most one market order per leg for the
\* remainder, no further order apart from a rollback is placed for the leg, and
\* open_position always returns
C26_BoundedWaitThenReturn ==
    /\ []single_fallback
    /\ (sg_pc = "wait_spot") ~> (sg_result.call = "open" /\ sg_result.returned)

(***************************************************************************)
(* Paper ledger: src/paper_trader.py, and Executor._open_paper_position /  *)
(* _close_paper_position.  Money is counted in hundredths of a USDT and    *)
(* the inputs are chosen so that every quantity and fee is a whole number. *)
(***************************************************************************)
\* fee model of the paper trader: 0.1% spot, 0.04% futures, as parts of FeeScale
SpotFeeRate == 10
FuturesFeeRate == 4
FeeScale == 10000

\* position sizes, prices and funding rates (in parts of FeeScale) offered to the ledger
PaperSizes == {10000}
PaperQuotes == {[spot |-> 50, futures |-> 50], [spot |-> 100, futures |-> 100],
                [spot |-> 50, futures |-> 100]}
PaperMarks == {100}
PaperRates == {-4, 4}
PaperBalances == {10016, 30000}

\* PaperTrader.__init__ (59-71) with an executor that has made no call yet
PaperInit ==
    /\ pt_initial \in PaperBalances
    /\ pt_spot_balance = pt_initial \div 2
    /\ pt_futures_balance = pt_initial \div 2
    /\ pt_positions = [s \in Symbols |-> NoPaper]
    /\ pt_trades = [count |-> 0, fees |-> 0]
    /\ pt_funding = 0
    /\ pp_position = [s \in Symbols |-> NoPosition]
    /\ pp_result = NoPaperResult
    /\ pp_opens = 0
    \* the live saga has not started
    /\ sg_pc = "idle"
    /\ sg_limit = TRUE
    /\ sg_side = "long_spot_short_perp"
    /\ sg_res = [l \in Legs |-> FailedResult("none")]
    /\ sg_polls = 0
    /\ sg_exch = [l \in Legs |-> NoExch]
    /\ sg_orders = <<>>
    /\ sg_result = NoResult
    /\ sg_position = NewPosition
    /\ md_paper = FALSE
    /\ db = [i \in RowIds |-> NoRow]
    /\ rm_peak_equity = 0
    /\ cy_pc = "idle"
    /\ cy_positions = {}
    /\ cy_equity = 0
    /\ cy_paused = FALSE
    /\ cy_todo = <<>>
    /\ cy_ran = {}
    /\ cy_attempts = {}
    /\ cy_data = NoData
    /\ cy_candidates = {}
    /\ cy_slots = 0
    /\ cy_error = FALSE
    /\ rn_pc = "not_started"
    /\ rn_running = FALSE
    /\ rn_shutdown = FALSE
    /\ rn_step = "none"
    /\ rn_wait = 0
    /\ rn_cycles = 0
    /\ rn_raised = 0
    /\ rn_errors = 0
    /\ rn_notes = {}
    /\ rn_cycle_raised = FALSE
    /\ rn_stop = NoStop
    /\ fd_now = 0
    /\ fd_ticks = 0
    /\ fd_last_check = None
    /\ fd_open = {}
    /\ fd_payments = {}
    /\ fn_name = "none"
    /\ fn_args = <<>>
    /\ fn_result = "none"
    /\ ds_tasks = [t \in Tasks |-> "none"]
    /\ ds_bot_running = FALSE
    /\ ds_running = FALSE
    /\ ds_shutdown = FALSE

spot_fee(value) == (value * SpotFeeRate) \div FeeScale
futures_fee(value) == (value * FuturesFeeRate) \div FeeScale

\* spot and futures P&L of a position at the given prices
\* (paper_trader.py 248-264, executor.py 610-629, accounting.py 98-103)
leg_pnl(pos, spot_price, futures_price) ==
    IF pos.side = "long_spot_short_perp"
    THEN [spot |-> (spot_price - pos.spot_entry_price) * pos.spot_quantity,
          futures |-> (pos.futures_entry_price - futures_price) * pos.futures_quantity]
    ELSE [spot |-> (pos.spot_entry_price - spot_price) * pos.spot_quantity,
          futures |-> (futures_price - pos.futures_entry_price) * pos.futures_quantity]

\* PaperTrader.open_position (101-222): the returned dict and the ledger after it
paper_open(symbol, side, size_usdt, spot_price, futures_price) ==
    LET sfee == spot_fee(size_usdt)
        ffee == futures_fee(size_usdt)
        required_balance == size_usdt + sfee + ffee
        unchanged == [spot_balance |-> pt_spot_balance,
                      futures_balance |-> pt_futures_balance,
                      positions |-> pt_positions, trades |-> pt_trades]
    IN IF pt_positions[symbol].open
       THEN [success |-> FALSE, error |-> "Already have position", total_fee |-> 0,
             ledger |-> unchanged]
       ELSE IF 2 * pt_spot_balance < required_balance
       THEN [success |-> FALSE, error |-> "Insufficient spot balance", total_fee |-> 0,
             ledger |-> unchanged]
       ELSE IF 2 * pt_futures_balance < required_balance
       THEN [success |-> FALSE, error |-> "Insufficient futures balance", total_fee |-> 0,
             ledger |-> unchanged]
       ELSE [success |-> TRUE, error |-> "none", total_fee |-> sfee + ffee,
             ledger |->
               [spot_balance |-> pt_spot_balance - (size_usdt \div 2 + sfee),
                futures_balance |-> pt_futures_balance - (size_usdt \div 2 + ffee),
                positions |-> [pt_positions EXCEPT ![symbol] =
                    [open |-> TRUE, side |-> side,
                     spot_quantity |-> size_usdt \div spot_price,
                     spot_entry_price |-> spot_price,
                     futures_quantity |-> size_usdt \div futures_price,
                     futures_entry_price |-> futures_price,
                     accumulated_funding |-> 0, funding_payments_count |-> 0]],
                trades |-> [count |-> pt_trades.count + 2,
                            fees |-> pt_trades.fees + sfee + ffee]]]

\* PaperTrader.close_position (224-320)
paper_close(symbol, spot_price, futures_price) ==
    IF ~pt_positions[symbol].open
    THEN [success |-> FALSE, error |-> "No position found",
          spot_pnl |-> 0, futures_pnl |-> 0, accumulated_funding |-> 0,
          total_fees |-> 0, realized_pnl |-> 0,
          ledger |-> [spot_balance |-> pt_spot_balance,
                      futures_balance |-> pt_futures_balance,
                      positions |-> pt_positions, trades |-> pt_trades]]
    ELSE LET position == pt_positions[symbol]
             pnl == leg_pnl(position, spot_price, futures_price)
             close_spot_value == position.spot_quantity * spot_price
             close_futures_value == position.futures_quantity * futures_price
             sfee == spot_fee(close_spot_value)
             ffee == futures_fee(close_futures_value)
             total_fee == sfee + ffee
         IN [success |-> TRUE, error |-> "none",
             spot_pnl |-> pnl.spot, futures_pnl |-> pnl.futures,
             accumulated_funding |-> position.accumulated_funding,
             total_fees |-> total_fee,
             realized_pnl |-> pnl.spot + pnl.futures + position.accumulated_funding
                              - total_fee,
             ledger |->
               [spot_balance |-> pt_spot_balance + close_spot_value - sfee + pnl.spot,
                futures_balance |->
                    pt_futures_balance + close_futures_value - ffee + pnl.futures,
                positions |-> [pt_positions EXCEPT ![symbol] = NoPaper],
                trades |-> [count |-> pt_trades.count + 2,
                            fees |-> pt_trades.fees + total_fee]]]

\* funding amount as the bot loop computes it (bot.py 300-308)
bot_funding_amount(side, futures_quantity, mark_price, funding_rate) ==
    LET position_value == futures_quantity * mark_price
    IN IF side = "long_spot_short_perp"
       THEN (position_value * funding_rate) \div FeeScale
       ELSE (-position_value * funding_rate) \div FeeScale

\* the amount without the inversion for the long-perp side
paper_funding_amount_mut(side, futures_quantity, mark_price, funding_rate) ==
    (futures_quantity * mark_price * funding_rate) \div FeeScale

\* funding amount as the paper trader computes it (paper_trader.py 342-352)
paper_funding_amount(side, futures_quantity, mark_price, funding_rate) ==
    LET position_value == futures_quantity * mark_price
    IN IF side = "long_spot_short_perp"
       THEN (position_value * funding_rate) \div FeeScale
       ELSE (-position_value * funding_rate) \div FeeScale

\* Executor._open_paper_position (657-724)
PaperOpen(symbol, side, size_usdt, spot_price, futures_price) ==
    /\ pp_opens < MaxOpens
    /\ \E spread_ok \in BOOLEAN :
         IF ~spread_ok
         THEN /\ pp_result' = [call |-> "open", symbol |-> symbol, success |-> FALSE,
                               error |-> "Could not get current prices"]
              /\ UNCHANGED <<pt_spot_balance, pt_futures_balance, pt_positions, pt_trades,
                             pp_position, pp_opens>>
         ELSE LET result == paper_open(symbol, side, size_usdt, spot_price, futures_price)
              IN /\ pt_spot_balance' = result.ledger.spot_balance
                 /\ pt_futures_balance' = result.ledger.futures_balance
                 /\ pt_positions' = result.ledger.positions
                 /\ pt_trades' = result.ledger.trades
                 /\ pp_result' = [call |-> "open", symbol |-> symbol,
                                  success |-> result.success, error |-> result.error]
                 /\ IF result.success
                    THEN /\ pp_opens' = pp_opens + 1
                         /\ pp_position' = [pp_position EXCEPT ![symbol] =
                               [NoPosition EXCEPT
                                  !.status = "open", !.side = side,
                                  !.spot_quantity = size_usdt \div spot_price,
                                  !.spot_entry_price = spot_price,
                                  !.futures_quantity = size_usdt \div futures_price,
                                  !.futures_entry_price = futures_price,
                                  !.total_fees = result.total_fee]]
                    ELSE UNCHANGED <<pp_position, pp_opens>>
    /\ UNCHANGED <<pt_initial, pt_funding>>
    /\ UNCHANGED nonPaperVars

\* what _close_paper_position writes into the Position (executor.py 765-773)
paper_closed_position(position, result, spot_price, futures_price) ==
    [position EXCEPT
        !.spot_exit_price = spot_price,
        !.futures_exit_price = futures_price,
        !.spot_pnl = result.spot_pnl,
        !.futures_pnl = result.futures_pnl,
        !.total_fees = @ + result.total_fees,
        !.realized_pnl = result.realized_pnl,
        !.status = "closed"]

\* Executor._close_paper_position (726-780), for a Position the bot holds as OPEN
PaperClose(symbol, spot_price, futures_price) ==
    /\ pp_position[symbol].status = "open"
    /\ \E spread_ok \in BOOLEAN :
         IF ~spread_ok
         THEN /\ pp_result' = [call |-> "close", symbol |-> symbol, success |-> FALSE,
                               error |-> "Could not get current prices"]
              /\ UNCHANGED <<pt_spot_balance, pt_futures_balance, pt_positions, pt_trades,
                             pp_position>>
         ELSE LET result == paper_close(symbol, spot_price, futures_price)
              IN /\ pt_spot_balance' = result.ledger.spot_balance
                 /\ pt_futures_balance' = result.ledger.futures_balance
                 /\ pt_positions' = result.ledger.positions
                 /\ pt_trades' = result.ledger.trades
                 /\ pp_result' = [call |-> "close", symbol |-> symbol,
                                  success |-> result.success, error |-> result.error]
                 /\ pp_position' =
                       IF result.success
                       THEN [pp_position EXCEPT ![symbol] =
                                paper_closed_position(pp_position[symbol], result,
                                                      spot_price, futures_price)]
                       ELSE pp_position
    /\ UNCHANGED <<pt_initial, pt_funding, pp_opens>>
    /\ UNCHANGED nonPaperVars

\* Accounting.record_funding_payment (266-308) as called by the bot loop for an
\* OPEN position: the payment is added to the Position, not to the paper ledger
RecordFunding(symbol, mark_price, funding_rate) ==
    /\ pp_position[symbol].status = "open"
    /\ pp_position[symbol].funding_payments_count < MaxFunding
    /\ LET position == pp_position[symbol]
           payment_amount == bot_funding_amount(position.side, position.futures_quantity,
                                                mark_price, funding_rate)
       IN pp_position' = [pp_position EXCEPT
             ![symbol].accumulated_funding = @ + payment_amount,
             ![symbol].funding_payments_count = @ + 1]
    /\ UNCHANGED <<pt_initial, pt_spot_balance, pt_futures_balance, pt_positions, pt_trades,
                   pt_funding, pp_result, pp_opens>>
    /\ UNCHANGED nonPaperVars

\* PaperTrader.process_funding (322-379) for funding_rates = {symbol: funding_rate}
ProcessFunding(symbol, mark_price, funding_rate) ==
    /\ pt_positions[symbol].open
    /\ pt_positions[symbol].funding_payments_count < MaxFunding
    /\ LET position == pt_positions[symbol]
           payment_amount == paper_funding_amount(position.side, position.futures_quantity,
                                                  mark_price, funding_rate)
       IN /\ pt_positions' = [pt_positions EXCEPT
                ![symbol].accumulated_funding = @ + payment_amount,
                ![symbol].funding_payments_count = @ + 1]
          /\ pt_futures_balance' = pt_futures_balance + payment_amount
    /\ pt_funding' = pt_funding + 1
    /\ UNCHANGED <<pt_initial, pt_spot_balance, pt_trades, pp_position, pp_result, pp_opens>>
    /\ UNCHANGED nonPaperVars

\* PaperTrader.close_position (224-320) called for a symbol the ledger holds no
\* position of (tests/test_paper_trader.py test_close_position_not_found)
CloseNotFound(symbol, spot_price, futures_price) ==
    /\ ~pt_positions[symbol].open
    /\ pp_position[symbol].status # "open"
    /\ LET result == paper_close(symbol, spot_price, futures_price)
       IN /\ pt_spot_balance' = result.ledger.spot_balance
          /\ pt_futures_balance' = result.ledger.futures_balance
          /\ pt_positions' = result.ledger.positions
          /\ pt_trades' = result.ledger.trades
          /\ pp_result' = [call |-> "close", symbol |-> symbol,
                           success |-> result.success, error |-> result.error]
    /\ UNCHANGED <<pt_initial, pt_funding, pp_position, pp_opens>>
    /\ UNCHANGED nonPaperVars

PaperNext ==
    \/ \E s \in Symbols, side \in PositionSide, size \in PaperSizes, q \in PaperQuotes :
          PaperOpen(s, side, size, q.spot, q.futures)
    \/ \E s \in Symbols, q \in PaperQuotes : PaperClose(s, q.spot, q.futures)
    \/ \E s \in Symbols, q \in PaperQuotes : CloseNotFound(s, q.spot, q.futures)
    \/ \E s \in Symbols, mp \in PaperMarks, r \in PaperRates : RecordFunding(s, mp, r)
    \/ \E s \in Symbols, mp \in PaperMarks, r \in PaperRates : ProcessFunding(s, mp, r)

SpecSaga == SagaInit /\ [][SagaNext]_vars

SpecPaper == PaperInit /\ [][PaperNext]_vars

\* C6: whenever close_position returns success, the closed position satisfies
\* realized_pnl = spot_pnl + futures_pnl + accumulated_funding - total_fees on the
\* position's own stored accumulated_funding and total_fees (entry plus exit fees).
C6_RealizedPnlIdentity ==
    \A s \in Symbols :
       pp_position[s].status = "closed" =>
          pp_position[s].realized_pnl =
             pp_position[s].spot_pnl + pp_position[s].futures_pnl
             + pp_position[s].accumulated_funding - pp_position[s].total_fees

\* C18: a paper position opened and closed at the same spot and futures prices,
\* with no funding processed in between, has spot_pnl = 0 and futures_pnl = 0 and
\* a net realized P&L equal to minus the fees charged for the position
C18_RoundTrip ==
    \A s \in Symbols :
       (/\ pp_position[s].status = "closed"
        /\ pp_position[s].spot_exit_price = pp_position[s].spot_entry_price
        /\ pp_position[s].futures_exit_price = pp_position[s].futures_entry_price
        /\ pp_position[s].funding_payments_count = 0
        /\ pt_funding = 0)
          => /\ pp_position[s].spot_pnl = 0
             /\ pp_position[s].futures_pnl = 0
             /\ pp_position[s].realized_pnl = -pp_position[s].total_fees

\* the paper ledger: balances, positions and trade history
ledger == <<pt_spot_balance, pt_futures_balance, pt_positions, pt_trades>>

\* a balance does not cover what open_position takes from it (168-169)
insufficient_balance(size_usdt) ==
    \/ pt_spot_balance < size_usdt \div 2 + spot_fee(size_usdt)
    \/ pt_futures_balance < size_usdt \div 2 + futures_fee(size_usdt)

\* C19 (open): a call of PaperTrader.open_position for a symbol that has a position,
\* or with a spot or futures balance that is insufficient, fails with an error
\* and leaves balances, positions and trade history unchanged
C19_FailedOpenChangesNothing ==
    [][\A s \in Symbols, side \in PositionSide, size \in PaperSizes, q \in PaperQuotes :
          (/\ PaperOpen(s, side, size, q.spot, q.futures)
           /\ pp_result'.error # "Could not get current prices"
           /\ pt_positions[s].open \/ insufficient_balance(size))
             => /\ ~pp_result'.success
                /\ pp_result'.error # "none"
                /\ UNCHANGED ledger]_vars

\* C19 (close): a call of PaperTrader.close_position for a symbol without a
\* position fails with an error and leaves all state unchanged
C19_FailedCloseChangesNothing ==
    [][\A s \in Symbols, q \in PaperQuotes :
          (/\ PaperClose(s, q.spot, q.futures) \/ CloseNotFound(s, q.spot, q.futures)
           /\ pp_result'.error # "Could not get current prices"
           /\ ~pt_positions[s].open)
             => /\ ~pp_result'.success
                /\ pp_result'.error = "No position found"
                /\ UNCHANGED <<ledger, pt_funding, pt_initial>>]_vars

\* C19: both parts
C19_FailuresChangeNothing ==
    C19_FailedOpenChangesNothing /\ C19_FailedCloseChangesNothing

\* the spot and futures P&L realized by the closed positions of a set of symbols
RECURSIVE closed_pnl(_)
closed_pnl(S) ==
    IF S = {} THEN 0
    ELSE LET s == CHOOSE x \in S : TRUE
         IN (IF pp_position[s].status = "closed"
             THEN pp_position[s].spot_pnl + pp_position[s].futures_pnl ELSE 0)
            + closed_pnl(S \ {s})

\* every position that was opened is closed, each symbol was traded at most once,
\* and no funding was processed
all_closed_no_funding ==
    /\ \A s \in Symbols : ~pt_positions[s].open /\ pp_position[s].status # "open"
    /\ pp_opens = Cardinality({s \in Symbols : pp_position[s].status = "closed"})
    /\ pt_funding = 0

\* C24: in the paper ledger, after successful opens and closes with no funding
\* processed, once every position is closed spot_balance + futures_balance equals
\* initial_balance plus the realized spot and futures P&L minus all fees charged
C24_LedgerConservation ==
    all_closed_no_funding =>
        pt_spot_balance + pt_futures_balance
            = pt_initial + closed_pnl(Symbols) - pt_trades.fees

\* only open_position calls changed the ledger so far: every recorded trade
\* belongs to a successful open and no funding was processed
only_opens == pt_trades.count = 2 * pp_opens /\ pt_funding = 0

\* C25: in the paper ledger spot_balance and futures_balance are never negative
\* after any sequence of open_position calls from a non-negative initial balance
C25_BalancesNonNegative ==
    only_opens => (pt_spot_balance >= 0 /\ pt_futures_balance >= 0)

(***************************************************************************)
(* Strategy and risk rules: src/strategy.py, src/risk_manager.py.          *)
(* Funding rates and spreads are counted in parts of RateScale, fractions  *)
(* of equity and ratios in parts of PctScale, money in USDT.               *)
(***************************************************************************)
RateScale == 100000
PctScale == 100
\* config defaults (config/config.py)
min_funding_rate == 30
max_spread == 100
position_size_pct == 10
max_coin_allocation == 20
min_order_value == 10
margin_ratio_critical == 85
margin_ratio_warning == 70
max_drawdown == 10

Abs(x) == IF x < 0 THEN -x ELSE x
Min(a, b) == IF a < b THEN a ELSE b

\* the OPEN positions among the given ids (p.status == PositionStatus.OPEN)
active_positions(rows, ids) == {i \in ids : rows[i].status = "open"}

\* sum of position_value over a set of ids
RECURSIVE total_value(_, _)
total_value(rows, ids) ==
    IF ids = {} THEN 0
    ELSE LET i == CHOOSE j \in ids : TRUE
         IN rows[i].position_value + total_value(rows, ids \ {i})

\* Strategy.calculate_position_size (44-72); symbol_allocation in parts of PctScale
calculate_position_size(total_equity, symbol_allocation) ==
    LET base == (total_equity * position_size_pct) \div PctScale
        position_size ==
            IF symbol_allocation * total_equity + base * PctScale
                  > max_coin_allocation * total_equity
            THEN ((max_coin_allocation - symbol_allocation) * total_equity) \div PctScale
            ELSE base
    IN IF position_size < min_order_value THEN 0
       ELSE IF position_size > 0 THEN position_size ELSE 0

HoldSignal(symbol, funding_rate, spread) ==
    [signal |-> "hold", symbol |-> symbol, funding_rate |-> funding_rate,
     spread |-> IF spread.some THEN spread.v ELSE 0,
     position_size_usdt |-> 0, urgency |-> 0]

\* Strategy.should_enter_position, max positions check (95-99)
at_max_positions(rows, ids) == Cardinality(active_positions(rows, ids)) >= max_positions

\* the symbol's positions never looked for
has_symbol_position_mut(rows, ids, symbol) == FALSE

\* Strategy.should_enter_position, symbol_positions (108-110)
has_symbol_position(rows, ids, symbol) ==
    \E i \in active_positions(rows, ids) : rows[i].symbol = symbol

\* the threshold check skipped
below_threshold_mut(funding_rate) == FALSE

\* Strategy.should_enter_position, funding rate threshold (119-121)
below_threshold(funding_rate) == Abs(funding_rate) < min_funding_rate

\* the long-spot side whatever the sign of the rate
entry_signal_mut(funding_rate) == "enter_long_spot_short_perp"

\* Strategy.should_enter_position, signal from the funding rate direction (161-169)
entry_signal(funding_rate) ==
    IF funding_rate > 0 THEN "enter_long_spot_short_perp"
    ELSE "enter_short_spot_long_perp"

\* The division position_size / total_equity of calculate_position_size (65) raises
\* ZeroDivisionError when total_equity is 0, and the exception leaves should_enter_position
RaisedSignal(symbol, funding_rate, spread) ==
    [signal |-> "ZeroDivisionError", symbol |-> symbol, funding_rate |-> funding_rate,
     spread |-> IF spread.some THEN spread.v ELSE 0,
     position_size_usdt |-> 0, urgency |-> 0]

\* Strategy.should_enter_position (74-182); spread is None when it is missing
should_enter_position(symbol, funding_rate, spread, rows, ids, total_equity) ==
    LET position_size == calculate_position_size(total_equity, 0)
    IN IF at_max_positions(rows, ids)
       THEN HoldSignal(symbol, funding_rate, spread)
       ELSE IF has_symbol_position(rows, ids, symbol)
       THEN HoldSignal(symbol, funding_rate, spread)
       ELSE IF below_threshold(funding_rate)
       THEN HoldSignal(symbol, funding_rate, spread)
       ELSE IF spread.some /\ Abs(spread.v) > max_spread
       THEN HoldSignal(symbol, funding_rate, spread)
       ELSE IF total_equity = 0
       THEN RaisedSignal(symbol, funding_rate, spread)
       ELSE IF position_size = 0
       THEN HoldSignal(symbol, funding_rate, spread)
       ELSE [signal |-> entry_signal(funding_rate),
             symbol |-> symbol, funding_rate |-> funding_rate,
             spread |-> IF spread.some THEN spread.v ELSE 0,
             position_size_usdt |-> position_size,
             urgency |-> Min(Abs(funding_rate) \div min_funding_rate, 10)]

\* Strategy.should_exit_position (184-265): "exit" or "hold".  Missing funding data
\* and a missing spread are read as 0 (lines 205-206).
should_exit_position(side, funding_data, spread, margin_ratio) ==
    LET current_funding == IF funding_data.some THEN funding_data.v ELSE 0
        current_spread == IF spread.some THEN spread.v ELSE 0
    IN IF side = "long_spot_short_perp" /\ 2 * current_funding <= min_funding_rate
       THEN "exit"
       ELSE IF side # "long_spot_short_perp" /\ 2 * current_funding >= -min_funding_rate
       THEN "exit"
       ELSE IF Abs(current_spread) > max_spread * 2
       THEN "exit"
       ELSE IF margin_ratio.some /\ margin_ratio.v >= margin_ratio_critical
       THEN "exit"
       ELSE "hold"

\* score of Strategy.rank_opportunities (361-372), times 100
score(sig) == 10 * Abs(sig.funding_rate) - Abs(sig.spread) + 1000 * sig.urgency

\* sort key: the urgency (scan_opportunities, 308) or the score (rank_opportunities)
sort_key(sig, by) == IF by = "urgency" THEN sig.urgency ELSE score(sig)

\* a stable descending sort, as list.sort(reverse=True) and sorted(reverse=True)
RECURSIVE sort_desc(_, _)
sort_desc(seq, by) ==
    IF Len(seq) <= 1 THEN seq
    ELSE LET rest == sort_desc(Tail(seq), by)
             x == Head(seq)
             before == {i \in 1..Len(rest) : sort_key(rest[i], by) <= sort_key(x, by)}
             at == IF before = {} THEN Len(rest) + 1
                   ELSE CHOOSE i \in before : \A j \in before : i <= j
         IN SubSeq(rest, 1, at - 1) \o <<x>> \o SubSeq(rest, at, Len(rest))

\* the total allocation never compared
exceeds_total_allocation_mut(existing_value, new_position_value, total_equity) == FALSE

\* RiskManager.check_position_limits, total allocation check (255-262); an
\* allocation is value / total_equity, and 0 when total_equity is not positive
exceeds_total_allocation(existing_value, new_position_value, total_equity) ==
    /\ total_equity > 0
    /\ (existing_value + new_position_value) * PctScale
           > max_positions * position_size_pct * total_equity

\* RiskManager.check_position_limits, max coin allocation check (248-253)
exceeds_coin_allocation(symbol_value, new_position_value, total_equity) ==
    /\ total_equity > 0
    /\ (symbol_value + new_position_value) * PctScale > max_coin_allocation * total_equity

\* RiskManager.check_position_limits (221-266): the reason of the rejection, "none"
\* when the position is allowed
rejection_reason(rows, ids, new_position_value, symbol, total_equity) ==
    LET active == active_positions(rows, ids)
        symbol_positions == {i \in active : rows[i].symbol = symbol}
    IN IF Cardinality(active) >= max_positions THEN "Maximum position count reached"
       ELSE IF symbol_positions # {} THEN "Already have position"
       ELSE IF exceeds_coin_allocation(total_value(rows, symbol_positions),
                                       new_position_value, total_equity)
       THEN "Would exceed max allocation"
       ELSE IF exceeds_total_allocation(total_value(rows, active), new_position_value,
                                        total_equity)
       THEN "Would exceed total allocation limit"
       ELSE "none"

\* RiskManager.check_position_limits (221-266): TRUE when the position is allowed
check_position_limits(rows, ids, new_position_value, symbol, total_equity) ==
    rejection_reason(rows, ids, new_position_value, symbol, total_equity) = "none"

\* drawdown of RiskManager.calculate_risk_metrics (110-117) reaches max_drawdown
drawdown_breached(peak_equity, total_equity) ==
    peak_equity > 0 /\ (peak_equity - total_equity) * PctScale >= max_drawdown * peak_equity

\* risk level CRITICAL (148-150)
is_critical(margin_ratio) ==
    margin_ratio.some /\ margin_ratio.v >= margin_ratio_critical

\* RiskManager.should_pause_trading (268-290), with the peak already updated
should_pause_trading(margin_ratio, peak_equity, total_equity) ==
    is_critical(margin_ratio) \/ drawdown_breached(peak_equity, total_equity)

(***************************************************************************)
(* One cycle of the orchestrator: src/bot.py run_once and its steps.       *)
(* The database holds the committed Position rows.  A row that was closed  *)
(* is read by no decision of the cycle (every list is filtered on OPEN),   *)
(* so the model keeps the OPEN rows and frees the id of a closed row once  *)
(* no loaded list refers to it.  The executor's sagas are specified in     *)
(* SpecSaga and the paper ledger in SpecPaper; here a call of the executor *)
(* is one step with the results it can return.  The funding check writes   *)
(* FundingPayment rows only and is specified in SpecFunding.               *)
(***************************************************************************)
Equities == {0, 1000}
FundingRates == {-40, 10, 40}
SpreadValues == {0, 250}
MarginRatios == {50, 90}

Optional(S) == {None} \cup {Some(x) : x \in S}

\* DataCollector.get_margin_ratio (440-467)
get_margin_ratio(paper) == IF paper THEN {Some(0)} ELSE Optional(MarginRatios)

\* Bot._get_all_positions (100-104): the rows of the table
get_all_positions_mut(rows) == {}
get_all_positions(rows) == {i \in RowIds : rows[i].status # "none"}

\* Bot._get_open_positions (106-110)
get_open_positions(rows) == {i \in RowIds : rows[i].status = "open"}

\* a set of ids as the list the query returns
RECURSIVE id_list(_)
id_list(ids) ==
    IF ids = {} THEN <<>>
    ELSE LET i == CHOOSE j \in ids : \A k \in ids : j <= k
         IN <<i>> \o id_list(ids \ {i})

slice_to_mut(seq, n) == seq

\* seq[:n] of Python, n possibly negative
slice_to(seq, n) ==
    IF n >= 0 THEN SubSeq(seq, 1, Min(n, Len(seq)))
    ELSE SubSeq(seq, 1, IF Len(seq) + n > 0 THEN Len(seq) + n ELSE 0)

RECURSIVE select_seq(_, _)
select_seq(seq, keep) ==
    IF seq = <<>> THEN <<>>
    ELSE (IF Head(seq) \in keep THEN <<Head(seq)>> ELSE <<>>) \o select_seq(Tail(seq), keep)

CycleInit ==
    /\ md_paper \in BOOLEAN
    /\ db = [i \in RowIds |-> NoRow]
    /\ rm_peak_equity = 0
    /\ cy_pc = "idle"
    /\ cy_positions = {}
    /\ cy_equity = 0
    /\ cy_paused = FALSE
    /\ cy_todo = <<>>
    /\ cy_ran = {}
    /\ cy_attempts = {}
    /\ cy_data = NoData
    /\ cy_candidates = {}
    /\ cy_slots = 0
    /\ cy_error = FALSE
    /\ sg_pc = "idle"
    /\ sg_limit = TRUE
    /\ sg_side = "long_spot_short_perp"
    /\ sg_res = [l \in Legs |-> FailedResult("none")]
    /\ sg_polls = 0
    /\ sg_exch = [l \in Legs |-> NoExch]
    /\ sg_orders = <<>>
    /\ sg_result = NoResult
    /\ sg_position = NewPosition
    /\ pt_initial = 0
    /\ pt_spot_balance = 0
    /\ pt_futures_balance = 0
    /\ pt_positions = [s \in Symbols |-> NoPaper]
    /\ pt_trades = [count |-> 0, fees |-> 0]
    /\ pt_funding = 0
    /\ pp_position = [s \in Symbols |-> NoPosition]
    /\ pp_result = NoPaperResult
    /\ pp_opens = 0
    /\ rn_pc = "not_started"
    /\ rn_running = FALSE
    /\ rn_shutdown = FALSE
    /\ rn_step = "none"
    /\ rn_wait = 0
    /\ rn_cycles = 0
    /\ rn_raised = 0
    /\ rn_errors = 0
    /\ rn_notes = {}
    /\ rn_cycle_raised = FALSE
    /\ rn_stop = NoStop
    /\ fd_now = 0
    /\ fd_ticks = 0
    /\ fd_last_check = None
    /\ fd_open = {}
    /\ fd_payments = {}
    /\ fn_name = "none"
    /\ fn_args = <<>>
    /\ fn_result = "none"
    /\ ds_tasks = [t \in Tasks |-> "none"]
    /\ ds_bot_running = FALSE
    /\ ds_running = FALSE
    /\ ds_shutdown = FALSE


\* the outcome of one fetch recorded for the cycle: data fetched once stays fetched
fetched_as(was, ok) == IF ok \/ was = "ok" THEN "ok" ELSE "failed"

\* record the fetches made for the symbols of the positions ids
record_fetches(data, rows, ids, fd, sp) ==
    [funding |-> [s \in Symbols |->
                    IF \E i \in ids : rows[i].symbol = s
                    THEN fetched_as(data.funding[s],
                                    \E i \in ids : rows[i].symbol = s /\ fd[i].some)
                    ELSE data.funding[s]],
     spread |-> [s \in Symbols |->
                    IF \E i \in ids : rows[i].symbol = s
                    THEN fetched_as(data.spread[s],
                                    \E i \in ids : rows[i].symbol = s /\ sp[i].some)
                    ELSE data.spread[s]]]

record_spread(data, symbol, ok) ==
    [data EXCEPT !.spread[symbol] = fetched_as(@, ok)]

Attempt(kind, symbol, result, persisted, notified) ==
    [kind |-> kind, symbol |-> symbol, result |-> result, persisted |-> persisted,
     notified |-> notified]

after_pause_check_mut(pause) == "balance"

\* run_once 363-370: a paused cycle goes straight to the risk check
after_pause_check(pause) == IF pause THEN "risk" ELSE "balance"

\* run_once 357-361: load the positions and ask the risk manager whether to pause
CycleStart ==
    /\ cy_pc = "idle"
    /\ \E total_equity \in Equities, margin_ratio \in get_margin_ratio(md_paper) :
         LET peak == IF total_equity > rm_peak_equity THEN total_equity
                     ELSE rm_peak_equity
             pause == should_pause_trading(margin_ratio, peak, total_equity)
         IN /\ rm_peak_equity' = peak
            /\ cy_paused' = pause
            /\ cy_pc' = after_pause_check(pause)
    /\ cy_positions' = get_all_positions(db)
    /\ cy_equity' = 0
    /\ cy_todo' = <<>>
    /\ cy_ran' = {"pause_check"}
    /\ cy_attempts' = {}
    /\ cy_data' = NoData
    /\ cy_candidates' = {}
    /\ cy_slots' = 0
    /\ cy_error' = FALSE
    /\ UNCHANGED <<md_paper, db>>
    /\ UNCHANGED nonCycleVars

\* run_once 371-377: read the balance; no equity ends the cycle
ReadBalance ==
    /\ cy_pc = "balance"
    /\ \E total_equity \in Equities :
         /\ cy_equity' = total_equity
         /\ cy_pc' = IF total_equity <= 0 THEN "idle" ELSE "exits"
    /\ cy_ran' = cy_ran \cup {"balance"}
    /\ UNCHANGED <<md_paper, db, rm_peak_equity, cy_positions, cy_paused, cy_todo,
                   cy_attempts, cy_data, cy_candidates, cy_slots, cy_error>>
    /\ UNCHANGED nonCycleVars

\* the position the exit loop finds for a signal (bot.py 205-207)
first_with_symbol(rows, ids, symbol) ==
    CHOOSE i \in ids : /\ rows[i].symbol = symbol
                       /\ \A j \in ids : rows[j].symbol = symbol => i <= j

\* _process_exit_signals 192-198 with Strategy.evaluate_positions (313-346)
ExitsBegin ==
    /\ cy_pc = "exits"
    /\ LET open_positions == get_open_positions(db)
       IN IF open_positions = {}
          THEN /\ cy_pc' = "entries"
               /\ UNCHANGED <<cy_todo, cy_data>>
          ELSE \E margin_ratio \in get_margin_ratio(md_paper),
                  fd \in [open_positions -> Optional(FundingRates)],
                  sp \in [open_positions -> Optional(SpreadValues)] :
                 LET exits == {i \in open_positions :
                                 should_exit_position(db[i].side, fd[i], sp[i],
                                                      margin_ratio) = "exit"}
                     signals == id_list(exits)
                     todo == [k \in 1..Len(signals) |->
                                first_with_symbol(db, open_positions,
                                                  db[signals[k]].symbol)]
                 IN /\ cy_todo' = todo
                    /\ cy_data' = record_fetches(cy_data, db, open_positions, fd, sp)
                    /\ cy_pc' = IF todo = <<>> THEN "entries" ELSE "exit_loop"
    /\ cy_ran' = cy_ran \cup {"exits"}
    /\ UNCHANGED <<md_paper, db, rm_peak_equity, cy_positions, cy_equity, cy_paused,
                   cy_attempts, cy_candidates, cy_slots, cy_error>>
    /\ UNCHANGED nonCycleVars

\* what Executor.close_position can do (562-655, 726-780): the live close returns
\* success or lets an exception escape; the paper close fails without prices or
\* without a ledger position
close_position_results(paper, spread_ok) ==
    IF paper THEN (IF spread_ok THEN {"success", "failure"} ELSE {"failure"})
    ELSE {"success", "raised"}

\* the spread fetches a close makes: one in paper mode, none in live mode
close_fetches(paper) == IF paper THEN BOOLEAN ELSE {TRUE}

\* the row of a position after the commit that follows a close
closed_rows(rows, id, result) ==
    IF result = "success" THEN [rows EXCEPT ![id] = NoRow] ELSE rows

\* _process_exit_signals 200-233: one signal of the loop
ExitOne ==
    /\ cy_pc = "exit_loop"
    /\ cy_todo # <<>>
    /\ LET id == Head(cy_todo)
           symbol == db[id].symbol
       IN \E spread_ok \in close_fetches(md_paper) :
          \E result \in close_position_results(md_paper, spread_ok) :
            /\ db[id].status = "open"
            /\ db' = closed_rows(db, id, result)
            /\ cy_attempts' = cy_attempts \cup
                 {Attempt("exit", symbol, result, FALSE,
                          IF result = "success" THEN "closed"
                          ELSE IF result = "raised" THEN "error" ELSE "none")}
            /\ cy_data' = IF md_paper THEN record_spread(cy_data, symbol, spread_ok)
                          ELSE cy_data
            /\ cy_error' = (result = "raised")
            /\ cy_todo' = IF result = "raised" THEN <<>> ELSE Tail(cy_todo)
            /\ cy_pc' = IF result = "raised" THEN "idle"
                        ELSE IF Tail(cy_todo) = <<>> THEN "entries" ELSE "exit_loop"
    /\ UNCHANGED <<md_paper, rm_peak_equity, cy_positions, cy_equity, cy_paused, cy_ran,
                   cy_candidates, cy_slots>>
    /\ UNCHANGED nonCycleVars


\* the signals of a list that are not HOLD (strategy.py 304-305)
RECURSIVE non_hold(_)
non_hold(seq) ==
    IF seq = <<>> THEN <<>>
    ELSE (IF Head(seq).signal # "hold" THEN <<Head(seq)>> ELSE <<>>) \o non_hold(Tail(seq))

\* Strategy.scan_opportunities (267-311) and rank_opportunities (348-374): listing
\* gives the funding rate of each symbol the exchange returned, sp the spreads
ranked_over(order, listing, sp, rows, ids, total_equity) ==
    LET candidates == select_seq(order,
                         {s \in DOMAIN listing : /\ listing[s].some
                                                 /\ Abs(listing[s].v) >= min_funding_rate})
        evaluated == [k \in 1..Len(candidates) |->
                        should_enter_position(candidates[k], listing[candidates[k]].v,
                                              sp[candidates[k]], rows, ids, total_equity)]
    IN sort_desc(sort_desc(non_hold(evaluated), "urgency"), "score")

\* the scan over the symbols of the model's exchange
ranked_signals(listing, sp, rows, ids, total_equity) ==
    ranked_over(SymbolOrder, listing, sp, rows, ids, total_equity)

\* the outcomes of get_all_funding_rates (178-247): an exchange error, or the rate
\* of each symbol that passed the filters
FundingListings == [Symbols -> Optional(FundingRates)]

\* _process_entry_signals 120-133: scan, rank and cut to the remaining slots
EntriesBegin ==
    /\ cy_pc = "entries"
    /\ \E error \in BOOLEAN, listing \in FundingListings,
          sp \in [Symbols -> Optional(SpreadValues)] :
         LET candidates == IF error THEN {}
                           ELSE {s \in Symbols : /\ listing[s].some
                                                 /\ Abs(listing[s].v) >= min_funding_rate}
             ranked == IF error THEN <<>>
                       ELSE ranked_signals(listing, sp, db, cy_positions, cy_equity)
             open_count == Cardinality(active_positions(db, cy_positions))
             remaining_slots == max_positions - open_count
             todo == slice_to(ranked, remaining_slots)
         IN /\ error => listing = [s \in Symbols |-> None]
            /\ \A s \in Symbols \ candidates : sp[s] = None
            /\ cy_candidates' = candidates
            /\ cy_slots' = IF ranked = <<>> THEN cy_slots ELSE remaining_slots
            /\ cy_todo' = todo
            /\ cy_data' =
                 [funding |-> [s \in Symbols |->
                                 IF error THEN fetched_as(cy_data.funding[s], FALSE)
                                 ELSE IF listing[s].some THEN "ok"
                                 ELSE cy_data.funding[s]],
                  spread |-> [s \in Symbols |->
                                 IF s \in candidates
                                 THEN fetched_as(cy_data.spread[s], sp[s].some)
                                 ELSE cy_data.spread[s]]]
            /\ cy_pc' = IF todo = <<>> THEN "risk" ELSE "entry_loop"
    /\ cy_ran' = cy_ran \cup {"entries"}
    /\ UNCHANGED <<md_paper, db, rm_peak_equity, cy_positions, cy_equity, cy_paused,
                   cy_attempts, cy_error>>
    /\ UNCHANGED nonCycleVars

\* what Executor.open_position can do (384-560, 657-724): no prices is a failure;
\* the live saga succeeds, fails or lets an exception escape; the paper ledger
\* accepts or refuses the position
open_position_results(paper, spread_ok) ==
    IF ~spread_ok THEN {"failure"}
    ELSE IF paper THEN {"success", "failure"}
    ELSE {"success", "failure", "raised"}

\* ids no row and no loaded list uses
free_ids(rows, loaded) == {i \in RowIds : rows[i].status = "none" /\ i \notin loaded}

\* bot.py 165-171: the Position is added and committed when the result is a
\* success with a position
persist_position_mut(rows, loaded, result, sig) ==
    LET id == CHOOSE i \in free_ids(rows, loaded) :
                   \A j \in free_ids(rows, loaded) : i <= j
    IN [rows EXCEPT ![id] =
           [status |-> IF result = "success" THEN "open" ELSE "error",
            symbol |-> sig.symbol,
            side |-> IF sig.signal = "enter_long_spot_short_perp"
                     THEN "long_spot_short_perp" ELSE "short_spot_long_perp",
            position_value |-> sig.position_size_usdt]]

persist_position(rows, loaded, result, sig) ==
    IF result = "success"
    THEN LET id == CHOOSE i \in free_ids(rows, loaded) :
                       \A j \in free_ids(rows, loaded) : i <= j
         IN [rows EXCEPT ![id] =
               [status |-> "open", symbol |-> sig.symbol,
                side |-> IF sig.signal = "enter_long_spot_short_perp"
                         THEN "long_spot_short_perp" ELSE "short_spot_long_perp",
                position_value |-> sig.position_size_usdt]]
    ELSE rows

\* _process_entry_signals 133-188: one signal of the loop
EntryOne ==
    /\ cy_pc = "entry_loop"
    /\ cy_todo # <<>>
    /\ LET sig == Head(cy_todo)
           allowed == check_position_limits(db, cy_positions, sig.position_size_usdt,
                                            sig.symbol, cy_equity)
           next_pc == IF Tail(cy_todo) = <<>> THEN "risk" ELSE "entry_loop"
       IN IF ~allowed
          THEN /\ cy_todo' = Tail(cy_todo)
               /\ cy_pc' = next_pc
               /\ UNCHANGED <<db, cy_attempts, cy_data, cy_error>>
          ELSE \E spread_ok \in BOOLEAN :
               \E result \in open_position_results(md_paper, spread_ok) :
                 /\ free_ids(db, cy_positions) # {}
                 /\ db' = persist_position(db, cy_positions, result, sig)
                 /\ cy_attempts' = cy_attempts \cup
                      {Attempt("entry", sig.symbol, result, db' # db,
                               IF result = "success" THEN "opened" ELSE "error")}
                 /\ cy_data' = record_spread(cy_data, sig.symbol, spread_ok)
                 /\ cy_error' = (result = "raised")
                 /\ cy_todo' = IF result = "raised" THEN <<>> ELSE Tail(cy_todo)
                 /\ cy_pc' = IF result = "raised" THEN "idle" ELSE next_pc
    /\ UNCHANGED <<md_paper, rm_peak_equity, cy_positions, cy_equity, cy_paused, cy_ran,
                   cy_candidates, cy_slots>>
    /\ UNCHANGED nonCycleVars


\* RiskManager.get_positions_to_close (292-337): every open position on critical
\* risk, otherwise those the exchange reports close to liquidation
get_positions_to_close(open_positions, margin_ratio, near_liquidation) ==
    IF is_critical(margin_ratio) THEN open_positions
    ELSE open_positions \cap near_liquidation

\* _check_risk_positions 237-245
RiskBegin ==
    /\ cy_pc = "risk"
    /\ LET open_positions == get_open_positions(db)
       IN IF open_positions = {}
          THEN /\ cy_pc' = "funding"
               /\ UNCHANGED <<cy_todo, rm_peak_equity>>
          ELSE \E total_equity \in Equities, margin_ratio \in get_margin_ratio(md_paper),
                  near_liquidation \in SUBSET open_positions :
                 LET todo == id_list(get_positions_to_close(open_positions, margin_ratio,
                                                            near_liquidation))
                 IN /\ rm_peak_equity' = IF total_equity > rm_peak_equity
                                         THEN total_equity ELSE rm_peak_equity
                    /\ cy_todo' = todo
                    /\ cy_pc' = IF todo = <<>> THEN "alerts" ELSE "risk_loop"
    /\ cy_ran' = cy_ran \cup {"risk"}
    /\ UNCHANGED <<md_paper, db, cy_positions, cy_equity, cy_paused, cy_attempts,
                   cy_data, cy_candidates, cy_slots, cy_error>>
    /\ UNCHANGED nonCycleVars

\* _check_risk_positions 247-256: one position of the loop
RiskOne ==
    /\ cy_pc = "risk_loop"
    /\ cy_todo # <<>>
    /\ LET id == Head(cy_todo)
           symbol == db[id].symbol
       IN \E spread_ok \in close_fetches(md_paper) :
          \E result \in close_position_results(md_paper, spread_ok) :
            /\ db[id].status = "open"
            /\ db' = closed_rows(db, id, result)
            /\ cy_attempts' = cy_attempts \cup
                 {Attempt("risk_close", symbol, result, FALSE,
                          IF result = "success" THEN "closed"
                          ELSE IF result = "raised" THEN "error" ELSE "none")}
            /\ cy_data' = IF md_paper THEN record_spread(cy_data, symbol, spread_ok)
                          ELSE cy_data
            /\ cy_error' = (result = "raised")
            /\ cy_todo' = IF result = "raised" THEN <<>> ELSE Tail(cy_todo)
            /\ cy_pc' = IF result = "raised" THEN "idle"
                        ELSE IF Tail(cy_todo) = <<>> THEN "alerts" ELSE "risk_loop"
    /\ UNCHANGED <<md_paper, rm_peak_equity, cy_positions, cy_equity, cy_paused, cy_ran,
                   cy_candidates, cy_slots>>
    /\ UNCHANGED nonCycleVars

\* _check_risk_positions 258-261: the metrics are computed again for the alerts
RiskAlerts ==
    /\ cy_pc = "alerts"
    /\ \E total_equity \in Equities :
         rm_peak_equity' = IF total_equity > rm_peak_equity THEN total_equity
                           ELSE rm_peak_equity
    /\ cy_pc' = "funding"
    /\ UNCHANGED <<md_paper, db, cy_positions, cy_equity, cy_paused, cy_todo, cy_ran,
                   cy_attempts, cy_data, cy_candidates, cy_slots, cy_error>>
    /\ UNCHANGED nonCycleVars

\* run_once 366 and 389: the funding check runs
CheckFunding ==
    /\ cy_pc = "funding"
    /\ cy_pc' = "snapshot"
    /\ cy_ran' = cy_ran \cup {"funding"}
    /\ UNCHANGED <<md_paper, db, rm_peak_equity, cy_positions, cy_equity, cy_paused,
                   cy_todo, cy_attempts, cy_data, cy_candidates, cy_slots, cy_error>>
    /\ UNCHANGED nonCycleVars

\* run_once 367 and 392: the snapshot is saved and the cycle ends
SaveSnapshot ==
    /\ cy_pc = "snapshot"
    /\ cy_pc' = "idle"
    /\ cy_ran' = cy_ran \cup {"snapshot"}
    /\ UNCHANGED <<md_paper, db, rm_peak_equity, cy_positions, cy_equity, cy_paused,
                   cy_todo, cy_attempts, cy_data, cy_candidates, cy_slots, cy_error>>
    /\ UNCHANGED nonCycleVars

\* run_once 394-398: an exception of any step (a fetch that raises, the database)
\* is caught, reported by notify_error, and ends the cycle; nothing uncommitted
\* reaches the database
CycleRaise ==
    /\ cy_pc # "idle"
    /\ cy_pc' = "idle"
    /\ cy_error' = TRUE
    /\ cy_todo' = <<>>
    /\ UNCHANGED <<md_paper, db, rm_peak_equity, cy_positions, cy_equity, cy_paused,
                   cy_ran, cy_attempts, cy_data, cy_candidates, cy_slots>>
    /\ UNCHANGED nonCycleVars

CycleNext ==
    \/ CycleStart
    \/ ReadBalance
    \/ ExitsBegin
    \/ ExitOne
    \/ EntriesBegin
    \/ EntryOne
    \/ RiskBegin
    \/ RiskOne
    \/ RiskAlerts
    \/ CheckFunding
    \/ SaveSnapshot
    \/ CycleRaise

Spec == CycleInit /\ [][CycleNext]_vars

\* C3: at any moment at most one position row per symbol has status OPEN
C3_OneOpenPerSymbol ==
    \A s \in Symbols :
        Cardinality({i \in RowIds : db[i].status = "open" /\ db[i].symbol = s}) <= 1

\* a symbol with an open position qualified again in a scan, and the cycle went on
\* past the entry step without a second row
C3_Witness ==
    \E s \in cy_candidates :
        /\ cy_pc = "risk"
        /\ \E i \in cy_positions : db[i].status = "open" /\ db[i].symbol = s


\* C5: a Position row is persisted by an entry only when open_position returned
\* success; a failed saga leaves no row in any status and an error notification
\* is sent (by the entry loop, or by the cycle boundary when the saga raised)
C5_PersistOnlyOnSuccess ==
    /\ \A a \in cy_attempts :
          a.kind = "entry" =>
             /\ a.persisted => a.result = "success"
             /\ a.result = "failure" => ~a.persisted /\ a.notified = "error"
             /\ a.result = "raised" => ~a.persisted /\ cy_error
    /\ \A i \in RowIds : db[i].status \in {"none", "open"}

\* in one cycle an entry failed and was reported, and another was persisted
C5_Witness ==
    /\ \E a \in cy_attempts :
          a.kind = "entry" /\ a.result = "failure" /\ ~a.persisted /\ a.notified = "error"
    /\ \E a \in cy_attempts : a.kind = "entry" /\ a.result = "success" /\ a.persisted
    /\ Cardinality({i \in RowIds : db[i].status = "open"}) = 1

\* the symbol's funding rate or prices could not be fetched in the cycle
data_unavailable(symbol) ==
    cy_data.funding[symbol] = "failed" \/ cy_data.spread[symbol] = "failed"

\* C7: when a cycle has ended, no exit and no entry was executed in it for a symbol
\* whose funding rate or prices could not be fetched in that cycle
C7_NoTradeWithoutData ==
    cy_pc = "idle" =>
        \A a \in cy_attempts :
            (a.kind \in {"exit", "entry"} /\ a.result = "success")
                => ~data_unavailable(a.symbol)


(***************************************************************************)
(* The run loop: src/bot.py run (401-428) and stop (430-434), with main    *)
(* (478-515) awaiting run() once.  run_once is the sequence of its steps,  *)
(* each of which returns or raises; what the steps do to the positions is  *)
(* specified in Spec.  stop() is called by the signal handler's task or    *)
(* the dashboard and runs between two steps of the loop.                   *)
(***************************************************************************)
RunInit ==
    /\ rn_pc = "not_started"
    /\ rn_running = FALSE
    /\ rn_shutdown = FALSE
    /\ rn_step = "none"
    /\ rn_wait = 0
    /\ rn_cycles = 0
    /\ rn_raised = 0
    /\ rn_errors = 0
    /\ rn_notes = {}
    /\ rn_cycle_raised = FALSE
    /\ rn_stop = NoStop
    /\ sg_pc = "idle"
    /\ sg_limit = TRUE
    /\ sg_side = "long_spot_short_perp"
    /\ sg_res = [l \in Legs |-> FailedResult("none")]
    /\ sg_polls = 0
    /\ sg_exch = [l \in Legs |-> NoExch]
    /\ sg_orders = <<>>
    /\ sg_result = NoResult
    /\ sg_position = NewPosition
    /\ pt_initial = 0
    /\ pt_spot_balance = 0
    /\ pt_futures_balance = 0
    /\ pt_positions = [s \in Symbols |-> NoPaper]
    /\ pt_trades = [count |-> 0, fees |-> 0]
    /\ pt_funding = 0
    /\ pp_position = [s \in Symbols |-> NoPosition]
    /\ pp_result = NoPaperResult
    /\ pp_opens = 0
    /\ md_paper = FALSE
    /\ db = [i \in RowIds |-> NoRow]
    /\ rm_peak_equity = 0
    /\ cy_pc = "idle"
    /\ cy_positions = {}
    /\ cy_equity = 0
    /\ cy_paused = FALSE
    /\ cy_todo = <<>>
    /\ cy_ran = {}
    /\ cy_attempts = {}
    /\ cy_data = NoData
    /\ cy_candidates = {}
    /\ cy_slots = 0
    /\ cy_error = FALSE
    /\ fd_now = 0
    /\ fd_ticks = 0
    /\ fd_last_check = None
    /\ fd_open = {}
    /\ fd_payments = {}
    /\ fn_name = "none"
    /\ fn_args = <<>>
    /\ fn_result = "none"
    /\ ds_tasks = [t \in Tasks |-> "none"]
    /\ ds_bot_running = FALSE
    /\ ds_running = FALSE
    /\ ds_shutdown = FALSE

\* a counter that stops counting at MaxCycles
count_up(n) == IF n < MaxCycles THEN n + 1 ELSE n

\* the loop is executing: run() passed its first lines and has not left the loop
loop_active == rn_pc \in {"test", "cycle", "waiting"}

\* run_once 354-392: what follows a step that returned
next_steps(step) ==
    CASE step = "pause_check" -> {"balance", "risk"}
      [] step = "balance" -> {"exits", "return"}
      [] step = "exits" -> {"entries"}
      [] step = "entries" -> {"risk"}
      [] step = "risk" -> {"funding"}
      [] step = "funding" -> {"snapshot"}
      [] OTHER -> {"return"}

\* run 403-407
RunStart ==
    /\ rn_pc = "not_started"
    /\ rn_running' = TRUE
    /\ rn_shutdown' = FALSE
    /\ rn_notes' = rn_notes \cup {"started"}
    /\ rn_pc' = "test"
    /\ UNCHANGED <<rn_step, rn_wait, rn_cycles, rn_raised, rn_errors, rn_cycle_raised,
                   rn_stop>>
    /\ UNCHANGED nonRunVars

\* run 410-411: the loop condition, and the call of run_once when it holds
LoopTest ==
    /\ rn_pc = "test"
    /\ IF rn_running /\ ~rn_shutdown
       THEN /\ rn_pc' = "cycle"
            /\ rn_step' = "pause_check"
            /\ rn_cycles' = count_up(rn_cycles)
            /\ rn_cycle_raised' = FALSE
            /\ rn_stop' = [rn_stop EXCEPT !.cycle_started = rn_stop.called]
       ELSE /\ rn_pc' = "finally"
            /\ UNCHANGED <<rn_step, rn_cycles, rn_cycle_raised, rn_stop>>
    /\ UNCHANGED <<rn_running, rn_shutdown, rn_wait, rn_raised, rn_errors, rn_notes>>
    /\ UNCHANGED nonRunVars

\* a step of run_once returns; after the last one run_once returns and the wait
\* of run 414-418 begins
StepDone ==
    /\ rn_pc = "cycle"
    /\ \E next \in next_steps(rn_step) :
         IF next = "return"
         THEN /\ rn_pc' = "waiting"
              /\ rn_step' = "none"
              /\ rn_wait' = WaitTicks
         ELSE /\ rn_step' = next
              /\ UNCHANGED <<rn_pc, rn_wait>>
    /\ UNCHANGED <<rn_running, rn_shutdown, rn_cycles, rn_raised, rn_errors, rn_notes,
                   rn_cycle_raised, rn_stop>>
    /\ UNCHANGED nonRunVars

\* run_once 394-398: the except clause calls notify_error and run_once returns
except_clause_mut == [errors |-> 0, pc |-> "waiting"]
except_clause == [errors |-> 1, pc |-> "waiting"]

\* a step of run_once raises an exception
StepRaise ==
    /\ rn_pc = "cycle"
    /\ rn_raised' = count_up(rn_raised)
    /\ rn_errors' = IF except_clause.errors = 1 THEN count_up(rn_errors) ELSE rn_errors
    /\ rn_cycle_raised' = TRUE
    /\ rn_pc' = except_clause.pc
    /\ rn_step' = "none"
    /\ rn_wait' = WaitTicks
    /\ UNCHANGED <<rn_running, rn_shutdown, rn_cycles, rn_notes, rn_stop>>
    /\ UNCHANGED nonRunVars

\* run 414-418: time passes while wait_for waits on the unset shutdown event
Tick ==
    /\ rn_pc = "waiting"
    /\ ~rn_shutdown
    /\ rn_wait > 0
    /\ rn_wait' = rn_wait - 1
    /\ rn_stop' = [rn_stop EXCEPT !.waited = rn_stop.called]
    /\ UNCHANGED <<rn_pc, rn_running, rn_shutdown, rn_step, rn_cycles, rn_raised,
                   rn_errors, rn_notes, rn_cycle_raised>>
    /\ UNCHANGED nonRunVars

\* run 419-420: asyncio.TimeoutError after recheck_interval
IntervalElapsed ==
    /\ rn_pc = "waiting"
    /\ ~rn_shutdown
    /\ rn_wait = 0
    /\ rn_pc' = "test"
    /\ UNCHANGED <<rn_running, rn_shutdown, rn_step, rn_wait, rn_cycles, rn_raised,
                   rn_errors, rn_notes, rn_cycle_raised, rn_stop>>
    /\ UNCHANGED nonRunVars

\* run 414-418: the shutdown event is set, wait() returns
ShutdownWakes ==
    /\ rn_pc = "waiting"
    /\ rn_shutdown
    /\ rn_pc' = "test"
    /\ UNCHANGED <<rn_running, rn_shutdown, rn_step, rn_wait, rn_cycles, rn_raised,
                   rn_errors, rn_notes, rn_cycle_raised, rn_stop>>
    /\ UNCHANGED nonRunVars

\* run 425-428
RunFinally ==
    /\ rn_pc = "finally"
    /\ rn_running' = FALSE
    /\ rn_notes' = rn_notes \cup {"stopped"}
    /\ rn_pc' = "terminated"
    /\ UNCHANGED <<rn_shutdown, rn_step, rn_wait, rn_cycles, rn_raised, rn_errors,
                   rn_cycle_raised, rn_stop>>
    /\ UNCHANGED nonRunVars

\* stop 433-434
stop_effect_mut == [running |-> FALSE, shutdown |-> FALSE]
stop_effect == [running |-> FALSE, shutdown |-> TRUE]

\* stop() is called
Stop ==
    /\ rn_running' = stop_effect.running
    /\ rn_shutdown' = stop_effect.shutdown
    /\ rn_stop' = IF loop_active THEN [rn_stop EXCEPT !.called = TRUE]
                  ELSE IF rn_pc = "not_started" THEN [rn_stop EXCEPT !.early = TRUE]
                  ELSE rn_stop
    /\ UNCHANGED <<rn_pc, rn_step, rn_wait, rn_cycles, rn_raised, rn_errors, rn_notes,
                   rn_cycle_raised>>
    /\ UNCHANGED nonRunVars

\* the steps the event loop takes for the task that runs run()
RunTask ==
    \/ RunStart
    \/ LoopTest
    \/ StepDone
    \/ StepRaise
    \/ Tick
    \/ IntervalElapsed
    \/ ShutdownWakes
    \/ RunFinally

RunNext ==
    \/ RunStart
    \/ LoopTest
    \/ StepDone
    \/ StepRaise
    \/ Tick
    \/ IntervalElapsed
    \/ ShutdownWakes
    \/ RunFinally
    \/ Stop

SpecRun == RunInit /\ [][RunNext]_vars

\* the event loop keeps running the task of run(): a step that can be taken is
\* taken; every awaited call returns or raises, and the timer of the wait fires
SpecRunFair == RunInit /\ [][RunNext]_vars /\ WF_vars(RunTask)

\* C8: every exception raised by a step of run_once is reported by notify_error at
\* the cycle boundary; run() leaves its loop only after a stop request; and after a
\* cycle that raised, a further cycle starts unless a stop is requested
C8_ExceptionCaughtLoopContinues ==
    /\ [](rn_errors = rn_raised)
    /\ [](rn_pc \in {"finally", "terminated"} => rn_stop.called)
    /\ ((rn_pc = "waiting" /\ rn_cycle_raised) ~> (rn_pc = "cycle" \/ rn_stop.called))

\* a cycle raised, was reported, and a later cycle is running with no stop requested
C8_Witness ==
    /\ rn_pc = "cycle"
    /\ rn_raised >= 1
    /\ rn_errors >= 1
    /\ rn_cycles >= 2
    /\ ~rn_stop.called

\* C10: after stop() on the active loop _running is false and the shutdown event is
\* set; no further cycle is started and a wait in progress lets no more time pass;
\* run() terminates, having sent the bot-stopped notification
C10_StopEndsLoop ==
    /\ [](rn_stop.called => (~rn_running /\ rn_shutdown))
    /\ [](rn_stop.called => (~rn_stop.cycle_started /\ ~rn_stop.waited))
    /\ [](rn_pc = "terminated" => "stopped" \in rn_notes)
    /\ (rn_stop.called ~> (rn_pc = "terminated" /\ "stopped" \in rn_notes))

\* stop() came during a wait that had time left, and run() has terminated
C10_Witness ==
    /\ rn_stop.called
    /\ rn_pc = "terminated"
    /\ "stopped" \in rn_notes
    /\ rn_wait > 0
    /\ rn_cycles >= 1


\* C22: a stop() issued after the task of run() was created, or before run() is
\* awaited, and before run() began executing still stops the bot: run() does not
\* discard the shutdown request and terminates
C22_EarlyStopStillStops ==
    /\ []((rn_stop.early /\ rn_pc # "not_started" /\ ~rn_stop.called)
              => (rn_shutdown \/ rn_pc \in {"finally", "terminated"}))
    /\ (rn_stop.early ~> (rn_pc = "terminated"))

(***************************************************************************)
(* The funding check: src/bot.py _check_funding_payments (263-326) and     *)
(* Accounting.record_funding_payment (src/accounting.py 266-308).  The     *)
(* clock counts ticks of half a minute; cycles reach this step at any      *)
(* tick, any number of times.                                              *)
(***************************************************************************)
TicksPerMinute == 2
TicksPerHour == 60 * TicksPerMinute
\* funding_hours = [0, 8, 16] (bot.py 273)
funding_hours == {0, 8, 16}
\* timedelta(minutes=10) (bot.py 283)
dedup_minutes == 10
\* the last minute of a funding hour in which payments are recorded (bot.py 275)
window_last_minute == 5

\* now.hour and now.minute
hour_of(now) == (now \div TicksPerHour) % 24
minute_of(now) == (now \div TicksPerMinute) % 60

\* bot.py 274-276
should_check(now) ==
    \E h \in funding_hours :
        hour_of(now) = h /\ 0 <= minute_of(now) /\ minute_of(now) <= window_last_minute

\* bot.py 281-284: a check less than ten minutes ago
checked_recently(now, last_check) ==
    last_check.some /\ now - last_check.v < dedup_minutes * TicksPerMinute

\* the instants at which the clock of a behaviour starts: two minutes before a
\* funding time, and two minutes before an hour that is none
StartTimes == {h * TicksPerHour - 2 * TicksPerMinute : h \in {8, 10, 16, 24}}

FundingPositions == {1, 2}

FundingInit ==
    /\ fd_now \in StartTimes
    /\ fd_ticks = 0
    /\ fd_last_check = None
    /\ fd_open \in SUBSET FundingPositions
    /\ fd_payments = {}
    /\ sg_pc = "idle"
    /\ sg_limit = TRUE
    /\ sg_side = "long_spot_short_perp"
    /\ sg_res = [l \in Legs |-> FailedResult("none")]
    /\ sg_polls = 0
    /\ sg_exch = [l \in Legs |-> NoExch]
    /\ sg_orders = <<>>
    /\ sg_result = NoResult
    /\ sg_position = NewPosition
    /\ pt_initial = 0
    /\ pt_spot_balance = 0
    /\ pt_futures_balance = 0
    /\ pt_positions = [s \in Symbols |-> NoPaper]
    /\ pt_trades = [count |-> 0, fees |-> 0]
    /\ pt_funding = 0
    /\ pp_position = [s \in Symbols |-> NoPosition]
    /\ pp_result = NoPaperResult
    /\ pp_opens = 0
    /\ md_paper = FALSE
    /\ db = [i \in RowIds |-> NoRow]
    /\ rm_peak_equity = 0
    /\ cy_pc = "idle"
    /\ cy_positions = {}
    /\ cy_equity = 0
    /\ cy_paused = FALSE
    /\ cy_todo = <<>>
    /\ cy_ran = {}
    /\ cy_attempts = {}
    /\ cy_data = NoData
    /\ cy_candidates = {}
    /\ cy_slots = 0
    /\ cy_error = FALSE
    /\ rn_pc = "not_started"
    /\ rn_running = FALSE
    /\ rn_shutdown = FALSE
    /\ rn_step = "none"
    /\ rn_wait = 0
    /\ rn_cycles = 0
    /\ rn_raised = 0
    /\ rn_errors = 0
    /\ rn_notes = {}
    /\ rn_cycle_raised = FALSE
    /\ rn_stop = NoStop
    /\ fn_name = "none"
    /\ fn_args = <<>>
    /\ fn_result = "none"
    /\ ds_tasks = [t \in Tasks |-> "none"]
    /\ ds_bot_running = FALSE
    /\ ds_running = FALSE
    /\ ds_shutdown = FALSE

\* time passes
ClockTick ==
    /\ fd_ticks < MaxTicks
    /\ fd_now' = fd_now + 1
    /\ fd_ticks' = fd_ticks + 1
    /\ UNCHANGED <<fd_last_check, fd_open, fd_payments>>
    /\ UNCHANGED nonFundingVars

\* positions are opened and closed between two checks
PositionsChange ==
    /\ \E open \in SUBSET FundingPositions : fd_open' = open
    /\ UNCHANGED <<fd_now, fd_ticks, fd_last_check, fd_payments>>
    /\ UNCHANGED nonFundingVars

\* the positions recorded by the loop of bot.py 290-316: those whose funding rate
\* was with_data, up to the position at which an exception ended the loop (0: none)
recorded_positions(open, with_data, raised_at) ==
    {i \in open \cap with_data : raised_at = 0 \/ i < raised_at}

\* _check_funding_payments
CheckFundingPayments ==
    /\ IF ~should_check(fd_now) \/ checked_recently(fd_now, fd_last_check)
       THEN UNCHANGED <<fd_last_check, fd_payments>>
       ELSE /\ fd_last_check' = Some(fd_now)
            /\ \E with_data \in SUBSET fd_open, raised_at \in fd_open \cup {0} :
                 fd_payments' = fd_payments \cup
                     {[position_id |-> i, funding_time |-> fd_now] :
                         i \in recorded_positions(fd_open, with_data, raised_at)}
    /\ UNCHANGED <<fd_now, fd_ticks, fd_open>>
    /\ UNCHANGED nonFundingVars

FundingNext ==
    \/ ClockTick
    \/ PositionsChange
    \/ CheckFundingPayments

SpecFunding == FundingInit /\ [][FundingNext]_vars

\* the funding time (00:00, 08:00 or 16:00) last passed at an instant
funding_time_before(t) == t - (t % (8 * TicksPerHour))

\* C9: every FundingPayment is recorded within five minutes after 00:00, 08:00 or
\* 16:00 UTC, and no position has two payments for one funding time
C9_FundingWindowAndDedup ==
    /\ \A p \in fd_payments :
          p.funding_time - funding_time_before(p.funding_time) <= 5 * TicksPerMinute
    /\ \A p, q \in fd_payments :
          (/\ p.position_id = q.position_id
           /\ funding_time_before(p.funding_time) = funding_time_before(q.funding_time))
             => p = q


\* C11: every failed attempt to open or to close a position in a cycle (entry,
\* strategy exit, forced risk close) is reported by an error notification
C11_FailuresNotified ==
    \A a \in cy_attempts : a.result # "success" => a.notified = "error"


(***************************************************************************)
(* The risk manager's decision functions called on their own:              *)
(* src/risk_manager.py calculate_risk_metrics (91-219),                    *)
(* should_pause_trading (268-290) and check_position_limits (221-266).     *)
(* Ratios are in parts of PctScale, money in USDT.                         *)
(***************************************************************************)
\* config default (config/config.py 45)
min_liquidation_distance == 15

\* RiskLevel order (risk_manager.py 28)
level_rank(level) ==
    CASE level = "low" -> 0 [] level = "medium" -> 1 [] level = "high" -> 2
      [] OTHER -> 3

\* the level after an alert of level HIGH (risk_manager.py 161-162, 176-177, 190-191)
raise_to_high_mut(level) == "high"
raise_to_high(level) == IF level_rank(level) < level_rank("high") THEN "high" ELSE level

\* calculate_risk_metrics 143-204: the risk level
risk_level(margin_ratio, min_liq_distance, drawdown_hit, position_count) ==
    LET after_margin ==
            IF margin_ratio.some /\ margin_ratio.v >= margin_ratio_critical THEN "critical"
            ELSE IF margin_ratio.some /\ margin_ratio.v >= margin_ratio_warning
            THEN raise_to_high("low")
            ELSE "low"
        after_liq ==
            IF min_liq_distance.some /\ min_liq_distance.v < min_liquidation_distance
            THEN raise_to_high(after_margin) ELSE after_margin
        after_drawdown == IF drawdown_hit THEN raise_to_high(after_liq) ELSE after_liq
    IN IF after_drawdown = "low" /\ position_count > 0 THEN "medium" ELSE after_drawdown

\* calculate_risk_metrics 108-117 and 188-219: the peak is updated, then the
\* drawdown and the level are computed
calculate_risk_metrics(peak_equity, margin_ratio, total_equity, min_liq_distance, position_count) ==
    LET peak == IF total_equity > peak_equity THEN total_equity ELSE peak_equity
        hit == drawdown_breached(peak, total_equity)
    IN [peak_equity |-> peak,
        drawdown_hit |-> hit,
        risk_level |-> risk_level(margin_ratio, min_liq_distance, hit, position_count)]

\* should_pause_trading 280-290 on the metrics
pause_decision(metrics) == metrics.risk_level = "critical" \/ metrics.drawdown_hit

MarginInputs == Optional({0, 70, 84, 85, 90})
EquityInputs == {0, 500, 899, 900, 901, 1000}
LiquidationInputs == Optional({5, 20})
CountInputs == {0, 1}

RiskInit ==
    /\ rm_peak_equity = 0
    /\ fn_name = "none"
    /\ fn_args = <<>>
    /\ fn_result = "none"
    /\ ds_tasks = [t \in Tasks |-> "none"]
    /\ ds_bot_running = FALSE
    /\ ds_running = FALSE
    /\ ds_shutdown = FALSE
    /\ sg_pc = "idle"
    /\ sg_limit = TRUE
    /\ sg_side = "long_spot_short_perp"
    /\ sg_res = [l \in Legs |-> FailedResult("none")]
    /\ sg_polls = 0
    /\ sg_exch = [l \in Legs |-> NoExch]
    /\ sg_orders = <<>>
    /\ sg_result = NoResult
    /\ sg_position = NewPosition
    /\ pt_initial = 0
    /\ pt_spot_balance = 0
    /\ pt_futures_balance = 0
    /\ pt_positions = [s \in Symbols |-> NoPaper]
    /\ pt_trades = [count |-> 0, fees |-> 0]
    /\ pt_funding = 0
    /\ pp_position = [s \in Symbols |-> NoPosition]
    /\ pp_result = NoPaperResult
    /\ pp_opens = 0
    /\ md_paper = FALSE
    /\ db = [i \in RowIds |-> NoRow]
    /\ cy_pc = "idle"
    /\ cy_positions = {}
    /\ cy_equity = 0
    /\ cy_paused = FALSE
    /\ cy_todo = <<>>
    /\ cy_ran = {}
    /\ cy_attempts = {}
    /\ cy_data = NoData
    /\ cy_candidates = {}
    /\ cy_slots = 0
    /\ cy_error = FALSE
    /\ rn_pc = "not_started"
    /\ rn_running = FALSE
    /\ rn_shutdown = FALSE
    /\ rn_step = "none"
    /\ rn_wait = 0
    /\ rn_cycles = 0
    /\ rn_raised = 0
    /\ rn_errors = 0
    /\ rn_notes = {}
    /\ rn_cycle_raised = FALSE
    /\ rn_stop = NoStop
    /\ fd_now = 0
    /\ fd_ticks = 0
    /\ fd_last_check = None
    /\ fd_open = {}
    /\ fd_payments = {}

\* a call of RiskManager.should_pause_trading
CallShouldPause ==
    /\ \E margin_ratio \in MarginInputs, total_equity \in EquityInputs,
          min_liq_distance \in LiquidationInputs, position_count \in CountInputs :
         LET metrics == calculate_risk_metrics(rm_peak_equity, margin_ratio, total_equity,
                                               min_liq_distance, position_count)
         IN /\ rm_peak_equity' = metrics.peak_equity
            /\ fn_name' = "should_pause_trading"
            /\ fn_args' = [margin_ratio |-> margin_ratio, total_equity |-> total_equity,
                           min_liq_distance |-> min_liq_distance,
                           position_count |-> position_count,
                           peak_equity |-> rm_peak_equity]
            /\ fn_result' = [should_pause |-> pause_decision(metrics),
                             risk_level |-> metrics.risk_level]
    /\ UNCHANGED nonCallVars

RiskNext ==
    \/ CallShouldPause

SpecRisk == RiskInit /\ [][RiskNext]_vars

\* the larger of two amounts
Max(a, b) == IF a > b THEN a ELSE b

\* C12: should_pause_trading returns true exactly when the margin ratio is at or
\* above the critical threshold (the level is then CRITICAL) or the drawdown from
\* the running-maximum peak equity is at or above max_drawdown
C12_PauseIffCriticalOrDrawdown ==
    fn_name = "should_pause_trading" =>
        LET critical == fn_args.margin_ratio.some
                        /\ fn_args.margin_ratio.v >= margin_ratio_critical
            peak == Max(fn_args.peak_equity, fn_args.total_equity)
            drawdown == peak > 0
                        /\ (peak - fn_args.total_equity) * PctScale >= max_drawdown * peak
        IN /\ rm_peak_equity = peak
           /\ (fn_result.risk_level = "critical") = critical
           /\ fn_result.should_pause = (critical \/ drawdown)

\* margin ratio 0.9 against 0.85 with a low liquidation distance: CRITICAL, pause
C12_Witness ==
    /\ fn_name = "should_pause_trading"
    /\ fn_args.margin_ratio = Some(90)
    /\ fn_args.min_liq_distance = Some(5)
    /\ fn_result.risk_level = "critical"
    /\ fn_result.should_pause


(***************************************************************************)
(* The strategy's decision functions called on their own:                  *)
(* src/strategy.py should_exit_position (184-265) and                      *)
(* should_enter_position (74-182).  Missing data is the argument None.     *)
(***************************************************************************)
\* arguments of should_enter_position: rates around +-min_funding_rate, spreads
\* around max_spread, equities whose size is below, at and above min_order_value,
\* and lists of positions with OPEN and closed rows
EnterFundingInputs == {-40, -30, -29, 0, 29, 30, 50}

EnterSpreadInputs == Optional({-101, 40, 100, 101})

EnterEquityInputs == {0, 99, 100, 10000}

PositionRows ==
    {NoRow} \cup
    {[status |-> st, symbol |-> sym, side |-> "long_spot_short_perp", position_value |-> 100] :
        st \in {"open", "closed"}, sym \in Symbols}

PositionLists == [RowIds -> PositionRows]

ExitFundingInputs == Optional({-40, -16, -15, -14, 0, 14, 15, 16, 40})
ExitSpreadInputs == Optional({-201, -200, 0, 200, 201})
ExitMarginInputs == Optional({84, 85, 90})

StrategyInit ==
    /\ \/ /\ fn_name = "calling should_exit_position"
          /\ fn_args \in [side : PositionSide, funding_data : ExitFundingInputs,
                          spread : ExitSpreadInputs, margin_ratio : ExitMarginInputs]
       \/ /\ fn_name = "calling should_enter_position"
          /\ fn_args \in [symbol : Symbols, funding_rate : EnterFundingInputs,
                          spread : EnterSpreadInputs, open_positions : PositionLists,
                          total_equity : EnterEquityInputs]
    /\ fn_result = "none"
    /\ ds_tasks = [t \in Tasks |-> "none"]
    /\ ds_bot_running = FALSE
    /\ ds_running = FALSE
    /\ ds_shutdown = FALSE
    /\ sg_pc = "idle"
    /\ sg_limit = TRUE
    /\ sg_side = "long_spot_short_perp"
    /\ sg_res = [l \in Legs |-> FailedResult("none")]
    /\ sg_polls = 0
    /\ sg_exch = [l \in Legs |-> NoExch]
    /\ sg_orders = <<>>
    /\ sg_result = NoResult
    /\ sg_position = NewPosition
    /\ pt_initial = 0
    /\ pt_spot_balance = 0
    /\ pt_futures_balance = 0
    /\ pt_positions = [s \in Symbols |-> NoPaper]
    /\ pt_trades = [count |-> 0, fees |-> 0]
    /\ pt_funding = 0
    /\ pp_position = [s \in Symbols |-> NoPosition]
    /\ pp_result = NoPaperResult
    /\ pp_opens = 0
    /\ md_paper = FALSE
    /\ db = [i \in RowIds |-> NoRow]
    /\ rm_peak_equity = 0
    /\ cy_pc = "idle"
    /\ cy_positions = {}
    /\ cy_equity = 0
    /\ cy_paused = FALSE
    /\ cy_todo = <<>>
    /\ cy_ran = {}
    /\ cy_attempts = {}
    /\ cy_data = NoData
    /\ cy_candidates = {}
    /\ cy_slots = 0
    /\ cy_error = FALSE
    /\ rn_pc = "not_started"
    /\ rn_running = FALSE
    /\ rn_shutdown = FALSE
    /\ rn_step = "none"
    /\ rn_wait = 0
    /\ rn_cycles = 0
    /\ rn_raised = 0
    /\ rn_errors = 0
    /\ rn_notes = {}
    /\ rn_cycle_raised = FALSE
    /\ rn_stop = NoStop
    /\ fd_now = 0
    /\ fd_ticks = 0
    /\ fd_last_check = None
    /\ fd_open = {}
    /\ fd_payments = {}

\* a call of Strategy.should_exit_position on the arguments drawn
CallShouldExit ==
    /\ fn_name = "calling should_exit_position"
    /\ fn_name' = "should_exit_position"
    /\ fn_args' = fn_args
    /\ fn_result' = should_exit_position(fn_args.side, fn_args.funding_data, fn_args.spread,
                                         fn_args.margin_ratio)
    /\ UNCHANGED rm_peak_equity
    /\ UNCHANGED nonCallVars

\* a call of Strategy.should_enter_position on the arguments drawn
CallShouldEnter ==
    /\ fn_name = "calling should_enter_position"
    /\ fn_name' = "should_enter_position"
    /\ fn_args' = fn_args
    /\ fn_result' = should_enter_position(fn_args.symbol, fn_args.funding_rate,
                                          fn_args.spread, fn_args.open_positions, RowIds,
                                          fn_args.total_equity)
    /\ UNCHANGED rm_peak_equity
    /\ UNCHANGED nonCallVars

StrategyNext ==
    \/ CallShouldExit
    \/ CallShouldEnter

SpecStrategy == StrategyInit /\ [][StrategyNext]_vars

\* the exit rule on data that is there: the funding rate crossed half the entry
\* threshold against the held side, or the spread is beyond twice max_spread, or
\* the margin ratio is critical
exit_rule(side, funding_data, spread, margin_ratio) ==
    \/ /\ funding_data.some
       /\ IF side = "long_spot_short_perp" THEN 2 * funding_data.v <= min_funding_rate
          ELSE 2 * funding_data.v >= -min_funding_rate
    \/ spread.some /\ Abs(spread.v) > 2 * max_spread
    \/ margin_ratio.some /\ margin_ratio.v >= margin_ratio_critical

\* C13: should_exit_position returns EXIT when the current funding rate is at or
\* below half of min_funding_rate for a long-spot/short-perp position (at or above
\* minus half of it for a short-spot/long-perp one), or |spread| > 2*max_spread, or
\* the margin ratio is at or above the critical threshold; otherwise HOLD
C13_ExitRule ==
    fn_name = "should_exit_position" =>
        fn_result = IF exit_rule(fn_args.side, fn_args.funding_data, fn_args.spread,
                                 fn_args.margin_ratio)
                    THEN "exit" ELSE "hold"


\* C14: should_enter_position returns HOLD whenever the absolute funding rate is
\* below min_funding_rate, for every spread (a missing one included), every list
\* of open positions and every equity
C14_HoldBelowThreshold ==
    (fn_name = "should_enter_position" /\ Abs(fn_args.funding_rate) < min_funding_rate)
        => fn_result.signal = "hold"

\* a rate just below the threshold held back although the spread is missing, no
\* position is open and the equity would give a tradable size
C14_Witness ==
    /\ fn_name = "should_enter_position"
    /\ fn_args.funding_rate = 29
    /\ ~fn_args.spread.some
    /\ active_positions(fn_args.open_positions, RowIds) = {}
    /\ fn_args.total_equity = 10000
    /\ fn_result.signal = "hold"


\* C15: should_enter_position returns HOLD whenever a position with status OPEN
\* exists for the symbol, or the number of OPEN positions is at least
\* max_positions, whatever the funding rate and the spread are
C15_HoldOnDuplicateOrFull ==
    (/\ fn_name = "should_enter_position"
     /\ \/ \E i \in RowIds : /\ fn_args.open_positions[i].status = "open"
                             /\ fn_args.open_positions[i].symbol = fn_args.symbol
        \/ Cardinality({i \in RowIds : fn_args.open_positions[i].status = "open"})
               >= max_positions)
        => fn_result.signal = "hold"

\* a rate above the threshold with a small spread held back because the symbol
\* already has its one OPEN position
C15_Witness ==
    /\ fn_name = "should_enter_position"
    /\ fn_args.funding_rate = 50
    /\ fn_args.spread = Some(40)
    /\ fn_args.total_equity = 10000
    /\ Cardinality({i \in RowIds : fn_args.open_positions[i].status = "open"}) = 1
    /\ \E i \in RowIds : /\ fn_args.open_positions[i].status = "open"
                         /\ fn_args.open_positions[i].symbol = fn_args.symbol
    /\ fn_result.signal = "hold"


\* the size the entry rule asks for: equity * position_size_pct, capped at the
\* part of the equity that max_coin_allocation leaves to the symbol
capped_size(total_equity) ==
    Min((total_equity * position_size_pct) \div PctScale,
        (total_equity * max_coin_allocation) \div PctScale)

\* one of the rejection rules of the entry decision applies to the call
entry_rejected(args) ==
    \/ Cardinality({i \in RowIds : args.open_positions[i].status = "open"}) >= max_positions
    \/ \E i \in RowIds : /\ args.open_positions[i].status = "open"
                         /\ args.open_positions[i].symbol = args.symbol
    \/ Abs(args.funding_rate) < min_funding_rate
    \/ args.spread.some /\ Abs(args.spread.v) > max_spread
    \/ capped_size(args.total_equity) < min_order_value

\* C17: when no rejection rule applies should_enter_position returns the
\* long-spot/short-perp signal for a positive rate and the short-spot/long-perp
\* signal for a negative one, sized equity * position_size_pct capped by
\* max_coin_allocation; an ENTER signal never has a size below min_order_value
C17_SideAndSize ==
    fn_name = "should_enter_position" =>
        /\ ~entry_rejected(fn_args) =>
              /\ fn_args.funding_rate > 0 => fn_result.signal = "enter_long_spot_short_perp"
              /\ fn_args.funding_rate < 0 => fn_result.signal = "enter_short_spot_long_perp"
              /\ fn_result.position_size_usdt = capped_size(fn_args.total_equity)
              /\ fn_result.position_size_usdt * PctScale
                     <= max_coin_allocation * fn_args.total_equity
        /\ fn_result.signal \in {"enter_long_spot_short_perp", "enter_short_spot_long_perp"}
              => fn_result.position_size_usdt >= min_order_value

\* the example: rate 0.0005, spot 50000 and futures 50020 (spread 0.0004), equity
\* 10000 and no open position give the long-spot/short-perp signal with size 1000
C17_Witness ==
    /\ fn_name = "should_enter_position"
    /\ fn_args.funding_rate = 50
    /\ fn_args.spread = Some(40)
    /\ fn_args.total_equity = 10000
    /\ \A i \in RowIds : fn_args.open_positions[i].status # "open"
    /\ fn_result.signal = "enter_long_spot_short_perp"
    /\ fn_result.position_size_usdt = 1000

\* a negative rate entered on the short-spot side at the smallest tradable size
C17_WitnessShort ==
    /\ fn_name = "should_enter_position"
    /\ fn_args.funding_rate = -30
    /\ fn_args.total_equity = 100
    /\ fn_result.signal = "enter_short_spot_long_perp"
    /\ fn_result.position_size_usdt = min_order_value


(***************************************************************************)
(* The position-limit gate called on its own:                              *)
(* src/risk_manager.py check_position_limits (221-266).                    *)
(***************************************************************************)
\* positions handed to the gate: OPEN rows of either symbol worth 10% or 15% of
\* the equity 10000, closed rows, and empty places
LimitRows ==
    {NoRow} \cup
    {[status |-> "open", symbol |-> sym, side |-> "long_spot_short_perp",
      position_value |-> v] : sym \in Symbols, v \in {1000, 1500}} \cup
    {[status |-> "closed", symbol |-> sym, side |-> "long_spot_short_perp",
      position_value |-> 1000] : sym \in Symbols}

LimitLists == [RowIds -> LimitRows]

NewValueInputs == {1000, 2000, 2500}

LimitEquityInputs == {0, 10000}

LimitsInit ==
    /\ fn_name = "calling check_position_limits"
    /\ fn_args \in [positions : LimitLists, new_position_value : NewValueInputs,
                    symbol : Symbols, total_equity : LimitEquityInputs]
    /\ fn_result = "none"
    /\ ds_tasks = [t \in Tasks |-> "none"]
    /\ ds_bot_running = FALSE
    /\ ds_running = FALSE
    /\ ds_shutdown = FALSE
    /\ sg_pc = "idle"
    /\ sg_limit = TRUE
    /\ sg_side = "long_spot_short_perp"
    /\ sg_res = [l \in Legs |-> FailedResult("none")]
    /\ sg_polls = 0
    /\ sg_exch = [l \in Legs |-> NoExch]
    /\ sg_orders = <<>>
    /\ sg_result = NoResult
    /\ sg_position = NewPosition
    /\ pt_initial = 0
    /\ pt_spot_balance = 0
    /\ pt_futures_balance = 0
    /\ pt_positions = [s \in Symbols |-> NoPaper]
    /\ pt_trades = [count |-> 0, fees |-> 0]
    /\ pt_funding = 0
    /\ pp_position = [s \in Symbols |-> NoPosition]
    /\ pp_result = NoPaperResult
    /\ pp_opens = 0
    /\ md_paper = FALSE
    /\ db = [i \in RowIds |-> NoRow]
    /\ rm_peak_equity = 0
    /\ cy_pc = "idle"
    /\ cy_positions = {}
    /\ cy_equity = 0
    /\ cy_paused = FALSE
    /\ cy_todo = <<>>
    /\ cy_ran = {}
    /\ cy_attempts = {}
    /\ cy_data = NoData
    /\ cy_candidates = {}
    /\ cy_slots = 0
    /\ cy_error = FALSE
    /\ rn_pc = "not_started"
    /\ rn_running = FALSE
    /\ rn_shutdown = FALSE
    /\ rn_step = "none"
    /\ rn_wait = 0
    /\ rn_cycles = 0
    /\ rn_raised = 0
    /\ rn_errors = 0
    /\ rn_notes = {}
    /\ rn_cycle_raised = FALSE
    /\ rn_stop = NoStop
    /\ fd_now = 0
    /\ fd_ticks = 0
    /\ fd_last_check = None
    /\ fd_open = {}
    /\ fd_payments = {}

\* a call of RiskManager.check_position_limits on the arguments drawn
CallCheckPositionLimits ==
    /\ fn_name = "calling check_position_limits"
    /\ fn_name' = "check_position_limits"
    /\ fn_args' = fn_args
    /\ fn_result' =
           LET reason == rejection_reason(fn_args.positions, RowIds,
                                          fn_args.new_position_value, fn_args.symbol,
                                          fn_args.total_equity)
           IN [allowed |-> reason = "none", reason |-> reason]
    /\ UNCHANGED rm_peak_equity
    /\ UNCHANGED nonCallVars

LimitsNext ==
    \/ CallCheckPositionLimits

SpecLimits == LimitsInit /\ [][LimitsNext]_vars

\* the OPEN positions of a list, and the value of those of one symbol
open_rows(positions) == {i \in RowIds : positions[i].status = "open"}

\* value / total_equity exceeds limit_pct percent; no allocation is taken when the
\* equity is not positive
allocation_exceeds(value, total_equity, limit_pct) ==
    total_equity > 0 /\ value * PctScale > limit_pct * total_equity

\* C16: check_position_limits returns (False, reason) when the number of OPEN
\* positions is at least max_positions, when an OPEN position exists for the
\* symbol, when the symbol's allocation plus the new allocation exceeds
\* max_coin_allocation, or when the total allocation plus the new allocation
\* exceeds max_positions * position_size_pct; positions that are not OPEN are
\* ignored, and in every other case it returns (True, None)
C16_PositionLimits ==
    fn_name = "check_position_limits" =>
        LET open == open_rows(fn_args.positions)
            of_symbol == {i \in open : fn_args.positions[i].symbol = fn_args.symbol}
            rejected ==
                \/ Cardinality(open) >= max_positions
                \/ of_symbol # {}
                \/ allocation_exceeds(total_value(fn_args.positions, of_symbol)
                                          + fn_args.new_position_value,
                                      fn_args.total_equity, max_coin_allocation)
                \/ allocation_exceeds(total_value(fn_args.positions, open)
                                          + fn_args.new_position_value,
                                      fn_args.total_equity,
                                      max_positions * position_size_pct)
        IN /\ fn_result.allowed = ~rejected
           /\ (fn_result.reason = "none") = fn_result.allowed

\* a position of 10% rejected for the total allocation alone: one OPEN position of
\* the other symbol holds 15%, below the count limit, and a closed position of
\* the symbol itself is in the list
C16_Witness ==
    /\ fn_name = "check_position_limits"
    /\ fn_args.new_position_value = 1000
    /\ fn_args.total_equity = 10000
    /\ Cardinality(open_rows(fn_args.positions)) = 1
    /\ \E i \in RowIds : /\ fn_args.positions[i].status = "closed"
                         /\ fn_args.positions[i].symbol = fn_args.symbol
    /\ ~fn_result.allowed
    /\ fn_result.reason = "Would exceed total allocation limit"

\* a position of 25% rejected for the symbol's own allocation
C16_WitnessCoin ==
    /\ fn_name = "check_position_limits"
    /\ fn_result.reason = "Would exceed max allocation"

\* a position allowed next to closed positions only
C16_WitnessAllowed ==
    /\ fn_name = "check_position_limits"
    /\ \E i \in RowIds : fn_args.positions[i].status = "closed"
    /\ fn_result.allowed


(***************************************************************************)
(* The dashboard's start and stop endpoints: src/dashboard.py start_bot    *)
(* and stop_bot (359-391).  Every accepted start creates a task that runs  *)
(* FundingBot.run (bot.py 401-428) on the one bot instance; the tasks      *)
(* share _running and the shutdown event and interleave at their awaits.   *)
(***************************************************************************)
DashInit ==
    /\ ds_tasks = [t \in Tasks |-> "none"]
    /\ ds_bot_running = FALSE
    /\ ds_running = FALSE
    /\ ds_shutdown = FALSE
    /\ sg_pc = "idle"
    /\ sg_limit = TRUE
    /\ sg_side = "long_spot_short_perp"
    /\ sg_res = [l \in Legs |-> FailedResult("none")]
    /\ sg_polls = 0
    /\ sg_exch = [l \in Legs |-> NoExch]
    /\ sg_orders = <<>>
    /\ sg_result = NoResult
    /\ sg_position = NewPosition
    /\ pt_initial = 0
    /\ pt_spot_balance = 0
    /\ pt_futures_balance = 0
    /\ pt_positions = [s \in Symbols |-> NoPaper]
    /\ pt_trades = [count |-> 0, fees |-> 0]
    /\ pt_funding = 0
    /\ pp_position = [s \in Symbols |-> NoPosition]
    /\ pp_result = NoPaperResult
    /\ pp_opens = 0
    /\ md_paper = FALSE
    /\ db = [i \in RowIds |-> NoRow]
    /\ rm_peak_equity = 0
    /\ cy_pc = "idle"
    /\ cy_positions = {}
    /\ cy_equity = 0
    /\ cy_paused = FALSE
    /\ cy_todo = <<>>
    /\ cy_ran = {}
    /\ cy_attempts = {}
    /\ cy_data = NoData
    /\ cy_candidates = {}
    /\ cy_slots = 0
    /\ cy_error = FALSE
    /\ rn_pc = "not_started"
    /\ rn_running = FALSE
    /\ rn_shutdown = FALSE
    /\ rn_step = "none"
    /\ rn_wait = 0
    /\ rn_cycles = 0
    /\ rn_raised = 0
    /\ rn_errors = 0
    /\ rn_notes = {}
    /\ rn_cycle_raised = FALSE
    /\ rn_stop = NoStop
    /\ fd_now = 0
    /\ fd_ticks = 0
    /\ fd_last_check = None
    /\ fd_open = {}
    /\ fd_payments = {}
    /\ fn_name = "none"
    /\ fn_args = <<>>
    /\ fn_result = "none"

\* start_bot 360-372: refused while _bot_running, else a task for run() is created
StartBot ==
    /\ ~ds_bot_running
    /\ \E t \in Tasks :
         /\ ds_tasks[t] = "none"
         /\ \A u \in Tasks : u < t => ds_tasks[u] # "none"
         /\ ds_tasks' = [ds_tasks EXCEPT ![t] = "created"]
    /\ ds_bot_running' = TRUE
    /\ UNCHANGED <<ds_running, ds_shutdown>>
    /\ UNCHANGED nonDashVars

\* stop_bot 377-389 with FundingBot.stop 430-434
StopBot ==
    /\ ds_bot_running
    /\ ds_running' = FALSE
    /\ ds_shutdown' = TRUE
    /\ ds_bot_running' = FALSE
    /\ UNCHANGED ds_tasks
    /\ UNCHANGED nonDashVars

\* run 403-407: the task begins to execute
TaskRunStart(t) ==
    /\ ds_tasks[t] = "created"
    /\ ds_running' = TRUE
    /\ ds_shutdown' = FALSE
    /\ ds_tasks' = [ds_tasks EXCEPT ![t] = "test"]
    /\ UNCHANGED ds_bot_running
    /\ UNCHANGED nonDashVars

\* run 410-411: the loop condition
TaskLoopTest(t) ==
    /\ ds_tasks[t] = "test"
    /\ ds_tasks' = [ds_tasks EXCEPT ![t] = IF ds_running /\ ~ds_shutdown THEN "cycle"
                                           ELSE "finally"]
    /\ UNCHANGED <<ds_bot_running, ds_running, ds_shutdown>>
    /\ UNCHANGED nonDashVars

\* run_once returns (it catches what its steps raise, 394-398)
TaskCycleDone(t) ==
    /\ ds_tasks[t] = "cycle"
    /\ ds_tasks' = [ds_tasks EXCEPT ![t] = "waiting"]
    /\ UNCHANGED <<ds_bot_running, ds_running, ds_shutdown>>
    /\ UNCHANGED nonDashVars

\* run 414-420: the wait ends, by the shutdown event or by the timeout
TaskWake(t) ==
    /\ ds_tasks[t] = "waiting"
    /\ ds_tasks' = [ds_tasks EXCEPT ![t] = "test"]
    /\ UNCHANGED <<ds_bot_running, ds_running, ds_shutdown>>
    /\ UNCHANGED nonDashVars

\* run 425-428
TaskFinally(t) ==
    /\ ds_tasks[t] = "finally"
    /\ ds_running' = FALSE
    /\ ds_tasks' = [ds_tasks EXCEPT ![t] = "terminated"]
    /\ UNCHANGED <<ds_bot_running, ds_shutdown>>
    /\ UNCHANGED nonDashVars

DashNext ==
    \/ StartBot
    \/ StopBot
    \/ \E t \in Tasks : TaskRunStart(t)
    \/ \E t \in Tasks : TaskLoopTest(t)
    \/ \E t \in Tasks : TaskCycleDone(t)
    \/ \E t \in Tasks : TaskWake(t)
    \/ \E t \in Tasks : TaskFinally(t)

SpecDash == DashInit /\ [][DashNext]_vars

\* the tasks whose run() is inside its loop
in_loop == {t \in Tasks : ds_tasks[t] \in {"test", "cycle", "waiting"}}

\* C23: for any sequence of dashboard start and stop requests at most one run()
\* loop of the bot instance is executing cycles at any time; a start accepted
\* after a stop does not run next to an earlier loop that has not finished
C23_SingleLoop ==
    Cardinality(in_loop) <= 1

\* ---------------------------------------------------------------------------
\* The paused cycle (bot.py run_once 358-370)
\* ---------------------------------------------------------------------------

\* the steps of a cycle that evaluate or execute strategy trades
trade_steps == {"balance", "exits", "entries"}

\* the cycle is inside a step that evaluates or executes strategy trades
in_trade_step == cy_pc \in {"balance", "exits", "exit_loop", "entries", "entry_loop"}

\* the cycle ended by returning from run_once, no step raised
cycle_returned == cy_pc = "idle" /\ "pause_check" \in cy_ran /\ ~cy_error

\* C27: in a cycle in which should_pause_trading returned true no position is
\* opened and no strategy exit is evaluated (the cycle never enters the balance,
\* exit or entry steps and makes no entry or exit attempt), while the forced
\* risk-close check, the funding-payment check and the snapshot step all run
\* before the cycle returns
C27_PausedCycle ==
    cy_paused =>
        /\ ~in_trade_step
        /\ cy_ran \cap trade_steps = {}
        /\ \A a \in cy_attempts : a.kind \notin {"entry", "exit"}
        /\ cycle_returned => {"risk", "funding", "snapshot"} \subseteq cy_ran

\* a paused cycle that closed a position by force and returned
C27_Witness ==
    /\ cy_paused
    /\ cycle_returned
    /\ \E a \in cy_attempts : a.kind = "risk_close" /\ a.result = "success"

\* ---------------------------------------------------------------------------
\* The position cap across cycles (bot.py 129-147, risk_manager.py 239-243)
\* ---------------------------------------------------------------------------

\* the entries the current cycle executed
entries_executed == {a \in cy_attempts : a.kind = "entry" /\ a.result = "success"}

\* C28: the number of OPEN positions never exceeds max_positions, and the
\* entries executed in one cycle are at most the slots that were left when the
\* entries of the cycle were processed (max_positions minus the OPEN positions)
C28_PositionCap ==
    /\ Cardinality(get_open_positions(db)) <= max_positions
    /\ Cardinality(entries_executed) <= cy_slots
    /\ cy_slots <= max_positions


\* ---------------------------------------------------------------------------
\* The cycle on an exchange that lists more symbols than max_positions: the
\* steps that change or read the number of OPEN positions, the closes of the
\* exit and risk steps taken as one step each
\* ---------------------------------------------------------------------------

\* the symbols of the wider exchange, in the order of its premium index
WideOrder == <<"BTCUSDT", "ETHUSDT", "SOLUSDT">>
WideSymbols == {WideOrder[i] : i \in DOMAIN WideOrder}

SlotsInit ==
    /\ md_paper = FALSE
    /\ db = [i \in RowIds |-> NoRow]
    /\ rm_peak_equity = 0
    /\ cy_pc = "idle"
    /\ cy_positions = {}
    /\ cy_equity = 0
    /\ cy_paused = FALSE
    /\ cy_todo = <<>>
    /\ cy_ran = {}
    /\ cy_attempts = {}
    /\ cy_data = NoData
    /\ cy_candidates = {}
    /\ cy_slots = 0
    /\ cy_error = FALSE
    /\ sg_pc = "idle"
    /\ sg_limit = TRUE
    /\ sg_side = "long_spot_short_perp"
    /\ sg_res = [l \in Legs |-> FailedResult("none")]
    /\ sg_polls = 0
    /\ sg_exch = [l \in Legs |-> NoExch]
    /\ sg_orders = <<>>
    /\ sg_result = NoResult
    /\ sg_position = NewPosition
    /\ pt_initial = 0
    /\ pt_spot_balance = 0
    /\ pt_futures_balance = 0
    /\ pt_positions = [s \in Symbols |-> NoPaper]
    /\ pt_trades = [count |-> 0, fees |-> 0]
    /\ pt_funding = 0
    /\ pp_position = [s \in Symbols |-> NoPosition]
    /\ pp_result = NoPaperResult
    /\ pp_opens = 0
    /\ rn_pc = "not_started"
    /\ rn_running = FALSE
    /\ rn_shutdown = FALSE
    /\ rn_step = "none"
    /\ rn_wait = 0
    /\ rn_cycles = 0
    /\ rn_raised = 0
    /\ rn_errors = 0
    /\ rn_notes = {}
    /\ rn_cycle_raised = FALSE
    /\ rn_stop = NoStop
    /\ fd_now = 0
    /\ fd_ticks = 0
    /\ fd_last_check = None
    /\ fd_open = {}
    /\ fd_payments = {}
    /\ fn_name = "none"
    /\ fn_args = <<>>
    /\ fn_result = "none"
    /\ ds_tasks = [t \in Tasks |-> "none"]
    /\ ds_bot_running = FALSE
    /\ ds_running = FALSE
    /\ ds_shutdown = FALSE

\* _process_exit_signals 200-233 and _check_risk_positions 247-256: a close that
\* succeeds is committed
WideClose(id) ==
    /\ cy_pc \in {"exits", "risk"}
    /\ db[id].status = "open"
    /\ db' = closed_rows(db, id, "success")
    /\ cy_attempts' = cy_attempts \cup
         {Attempt(IF cy_pc = "exits" THEN "exit" ELSE "risk_close", db[id].symbol,
                  "success", FALSE, "closed")}
    /\ UNCHANGED <<md_paper, rm_peak_equity, cy_pc, cy_positions, cy_equity, cy_paused,
                   cy_todo, cy_ran, cy_data, cy_candidates, cy_slots, cy_error>>
    /\ UNCHANGED nonCycleVars

\* run_once 379-383: the exit step returns and the entries are processed
WideExitsDone ==
    /\ cy_pc = "exits"
    /\ cy_pc' = "entries"
    /\ cy_ran' = cy_ran \cup {"exits"}
    /\ UNCHANGED <<md_paper, db, rm_peak_equity, cy_positions, cy_equity, cy_paused,
                   cy_todo, cy_attempts, cy_data, cy_candidates, cy_slots, cy_error>>
    /\ UNCHANGED nonCycleVars

\* scan_opportunities 289-296: the spread is fetched for the symbols whose rate
\* reaches the threshold
worth_a_spread(listing) ==
    {s \in DOMAIN listing : listing[s].some /\ Abs(listing[s].v) >= min_funding_rate}

\* _process_entry_signals 120-133: scan, rank and cut to the remaining slots
WideEntriesBegin ==
    /\ cy_pc = "entries"
    /\ \E listing \in [WideSymbols -> Optional(FundingRates)] :
       \E sp \in [worth_a_spread(listing) -> Optional(SpreadValues)] :
         LET ranked == ranked_over(WideOrder, listing, sp, db, cy_positions, cy_equity)
             open_count == Cardinality(active_positions(db, cy_positions))
             remaining_slots == max_positions - open_count
             todo == slice_to(ranked, remaining_slots)
         IN /\ cy_candidates' = {ranked[k].symbol : k \in 1..Len(ranked)}
            /\ cy_slots' = IF ranked = <<>> THEN cy_slots ELSE remaining_slots
            /\ cy_todo' = todo
            /\ cy_pc' = IF todo = <<>> THEN "risk" ELSE "entry_loop"
    /\ cy_ran' = cy_ran \cup {"entries"}
    /\ UNCHANGED <<md_paper, db, rm_peak_equity, cy_positions, cy_equity, cy_paused,
                   cy_attempts, cy_data, cy_error>>
    /\ UNCHANGED nonCycleVars

\* _process_entry_signals 133-188: one signal of the loop
WideEntryOne ==
    /\ cy_pc = "entry_loop"
    /\ cy_todo # <<>>
    /\ LET sig == Head(cy_todo)
           allowed == check_position_limits(db, cy_positions, sig.position_size_usdt,
                                            sig.symbol, cy_equity)
           next_pc == IF Tail(cy_todo) = <<>> THEN "risk" ELSE "entry_loop"
       IN IF ~allowed
          THEN /\ cy_todo' = Tail(cy_todo)
               /\ cy_pc' = next_pc
               /\ UNCHANGED <<db, cy_attempts, cy_error>>
          ELSE \E spread_ok \in BOOLEAN :
               \E result \in open_position_results(md_paper, spread_ok) :
                 /\ free_ids(db, cy_positions) # {}
                 /\ db' = persist_position(db, cy_positions, result, sig)
                 /\ cy_attempts' = cy_attempts \cup
                      {Attempt("entry", sig.symbol, result, db' # db,
                               IF result = "success" THEN "opened" ELSE "error")}
                 /\ cy_error' = (result = "raised")
                 /\ cy_todo' = IF result = "raised" THEN <<>> ELSE Tail(cy_todo)
                 /\ cy_pc' = IF result = "raised" THEN "idle" ELSE next_pc
    /\ UNCHANGED <<md_paper, rm_peak_equity, cy_positions, cy_equity, cy_paused, cy_ran,
                   cy_data, cy_candidates, cy_slots>>
    /\ UNCHANGED nonCycleVars

\* run_once 364 and 386: the risk step returns
WideRiskDone ==
    /\ cy_pc = "risk"
    /\ cy_pc' = "funding"
    /\ cy_ran' = cy_ran \cup {"risk"}
    /\ UNCHANGED <<md_paper, db, rm_peak_equity, cy_positions, cy_equity, cy_paused,
                   cy_todo, cy_attempts, cy_data, cy_candidates, cy_slots, cy_error>>
    /\ UNCHANGED nonCycleVars

SlotsNext ==
    \/ CycleStart
    \/ ReadBalance
    \/ \E id \in RowIds : WideClose(id)
    \/ WideExitsDone
    \/ WideEntriesBegin
    \/ WideEntryOne
    \/ WideRiskDone
    \/ CheckFunding
    \/ SaveSnapshot
    \/ CycleRaise

SpecSlots == SlotsInit /\ [][SlotsNext]_vars

\* three symbols qualified with two slots left, and the cycle opened two positions
C28_Witness ==
    /\ Cardinality(cy_candidates) > max_positions
    /\ cy_slots = max_positions
    /\ Cardinality(entries_executed) = cy_slots
    /\ Cardinality(get_open_positions(db)) = max_positions

\* ---------------------------------------------------------------------------
\* Funding payments of positions skipped by a check (bot.py 280-317)
\* ---------------------------------------------------------------------------

\* the funding times the clock of a behaviour can pass
FundingTimes == {h * TicksPerHour : h \in {8, 16, 24}}

\* the cycles keep coming and time passes
SpecFundingFair ==
    FundingInit /\ [][FundingNext]_vars /\ WF_vars(ClockTick) /\ WF_vars(CheckFundingPayments)

\* a FundingPayment of the position exists for the funding time
paid(i, t) ==
    \E p \in fd_payments : p.position_id = i /\ funding_time_before(p.funding_time) = t

\* the window of the funding time is over
window_over(t) == fd_now >= t + (window_last_minute + 1) * TicksPerMinute

\* the first instant after the window of the funding time
window_end(t) == fd_now = t + (window_last_minute + 1) * TicksPerMinute

\* a cycle ran the funding check inside the window of the funding time
cycle_ran_in_window(t) ==
    fd_last_check.some /\ funding_time_before(fd_last_check.v) = t

\* C29: a position that is OPEN at a funding time eventually has a FundingPayment
\* for that funding time, unless it is closed before the window ends or the window
\* ends without a cycle: a position skipped by one cycle of the window is recorded
\* by a later one
C29_EveryOpenPositionPaid ==
    \A i \in FundingPositions : \A t \in FundingTimes :
        [](( fd_now = t /\ i \in fd_open )
              => <>( \/ paid(i, t)
                     \/ i \notin fd_open /\ ~window_over(t)
                     \/ window_end(t) /\ ~cycle_ran_in_window(t) ))

\* the window ended with the position OPEN and unpaid although a cycle ran in it
C29_Skipped ==
    \E i \in FundingPositions : \E t \in FundingTimes :
        /\ window_end(t)
        /\ cycle_ran_in_window(t)
        /\ i \in fd_open
        /\ ~paid(i, t)

(***************************************************************************)
(* The funding amount of one position computed by the bot loop             *)
(* (src/bot.py 297-308) and by the paper trader (src/paper_trader.py       *)
(* 342-359) on the same inputs.  Prices are in hundredths of USDT, rates   *)
(* in parts of FeeScale.                                                   *)
(***************************************************************************)
AmountQuantities == {0, 1, 3}
AmountMarkPrices == {5000, 10000}
AmountRates == {-40, -3, 0, 3, 40}
\* the rates a position can be entered at: should_enter_position holds on zero
AmountEntryRates == AmountRates \ {0}

\* bot.py 148-152: the side opened for an entry signal
side_of_signal(signal) ==
    IF signal = "enter_long_spot_short_perp" THEN "long_spot_short_perp"
    ELSE "short_spot_long_perp"

AmountInit ==
    /\ sg_pc = "idle"
    /\ sg_limit = TRUE
    /\ sg_side = "long_spot_short_perp"
    /\ sg_res = [l \in Legs |-> FailedResult("none")]
    /\ sg_polls = 0
    /\ sg_exch = [l \in Legs |-> NoExch]
    /\ sg_orders = <<>>
    /\ sg_result = NoResult
    /\ sg_position = NewPosition
    /\ pt_initial = 0
    /\ pt_spot_balance = 0
    /\ pt_futures_balance = 0
    /\ pt_positions = [s \in Symbols |-> NoPaper]
    /\ pt_trades = [count |-> 0, fees |-> 0]
    /\ pt_funding = 0
    /\ pp_position = [s \in Symbols |-> NoPosition]
    /\ pp_result = NoPaperResult
    /\ pp_opens = 0
    /\ md_paper = FALSE
    /\ db = [i \in RowIds |-> NoRow]
    /\ rm_peak_equity = 0
    /\ cy_pc = "idle"
    /\ cy_positions = {}
    /\ cy_equity = 0
    /\ cy_paused = FALSE
    /\ cy_todo = <<>>
    /\ cy_ran = {}
    /\ cy_attempts = {}
    /\ cy_data = NoData
    /\ cy_candidates = {}
    /\ cy_slots = 0
    /\ cy_error = FALSE
    /\ rn_pc = "not_started"
    /\ rn_running = FALSE
    /\ rn_shutdown = FALSE
    /\ rn_step = "none"
    /\ rn_wait = 0
    /\ rn_cycles = 0
    /\ rn_raised = 0
    /\ rn_errors = 0
    /\ rn_notes = {}
    /\ rn_cycle_raised = FALSE
    /\ rn_stop = NoStop
    /\ fd_now = 0
    /\ fd_ticks = 0
    /\ fd_last_check = None
    /\ fd_open = {}
    /\ fd_payments = {}
    /\ fn_name = "calling funding"
    /\ fn_args \in [side : PositionSide, futures_quantity : AmountQuantities,
                    mark_price : AmountMarkPrices, funding_rate : AmountRates,
                    entry_rate : AmountEntryRates]
    /\ fn_result = [bot |-> None, paper |-> None]
    /\ ds_tasks = [t \in Tasks |-> "none"]
    /\ ds_bot_running = FALSE
    /\ ds_running = FALSE
    /\ ds_shutdown = FALSE

\* the bot loop computes the payment of the position
CallBotFunding ==
    /\ fn_name \in {"calling funding", "funding"}
    /\ ~fn_result.bot.some
    /\ fn_name' = "funding"
    /\ fn_args' = fn_args
    /\ fn_result' = [fn_result EXCEPT !.bot =
                        Some(bot_funding_amount(fn_args.side, fn_args.futures_quantity,
                                                fn_args.mark_price, fn_args.funding_rate))]
    /\ UNCHANGED rm_peak_equity
    /\ UNCHANGED nonCallVars

\* the paper trader computes the payment of the position
CallPaperFunding ==
    /\ fn_name \in {"calling funding", "funding"}
    /\ ~fn_result.paper.some
    /\ fn_name' = "funding"
    /\ fn_args' = fn_args
    /\ fn_result' = [fn_result EXCEPT !.paper =
                        Some(paper_funding_amount(fn_args.side, fn_args.futures_quantity,
                                                  fn_args.mark_price, fn_args.funding_rate))]
    /\ UNCHANGED rm_peak_equity
    /\ UNCHANGED nonCallVars

AmountNext ==
    \/ CallBotFunding
    \/ CallPaperFunding

SpecAmount == AmountInit /\ [][AmountNext]_vars

\* quantity * mark * rate, in hundredths of USDT
signed_amount(sign, futures_quantity, mark_price, funding_rate) ==
    (sign * futures_quantity * mark_price * funding_rate) \div FeeScale

\* the position was entered by the side-selection rule and the rate has kept its sign
rate_kept_sign ==
    /\ fn_args.side = side_of_signal(entry_signal(fn_args.entry_rate))
    /\ fn_args.funding_rate * fn_args.entry_rate > 0

\* C30: on the same side, futures quantity, funding rate and mark price the bot
\* loop and the paper trader compute the same funding amount, +quantity*mark*rate
\* for long-spot/short-perp and -quantity*mark*rate for short-spot/long-perp; a
\* position entered by the side-selection rule is paid a non-negative amount
\* while the rate keeps the sign it had at entry
C30_SameFundingAmount ==
    fn_name = "funding" =>
        LET expected == signed_amount(IF fn_args.side = "long_spot_short_perp"
                                      THEN 1 ELSE -1,
                                      fn_args.futures_quantity, fn_args.mark_price,
                                      fn_args.funding_rate)
        IN /\ fn_result.bot.some => fn_result.bot.v = expected
           /\ fn_result.paper.some => fn_result.paper.v = expected
           /\ (fn_result.bot.some /\ fn_result.paper.some)
                 => fn_result.bot.v = fn_result.paper.v
           /\ rate_kept_sign =>
                 /\ fn_result.bot.some => fn_result.bot.v >= 0
                 /\ fn_result.paper.some => fn_result.paper.v >= 0

\* a long-perp position entered on a negative rate, paid by both at a negative rate
C30_Witness ==
    /\ fn_name = "funding"
    /\ fn_args.side = "short_spot_long_perp"
    /\ rate_kept_sign
    /\ fn_result.bot.some /\ fn_result.paper.some
    /\ fn_result.bot.v > 0
    /\ fn_result.paper.v = fn_result.bot.v

====
